---------------------------- MODULE Spec2Model ----------------------------
(***************************************************************************)
(* A model of the signal cleaning and alignment pipeline of CHARM:         *)
(*   - the non-wear filters     (scripts/algorithms/counts_cal_.py)        *)
(*   - the hourly file readers  (scripts/utils/read_file.py)               *)
(*   - the charging detector    (scripts/time_preprocessing/01_...)        *)
(*   - the file-gap detector    (scripts/time_preprocessing/02_...)        *)
(* Each component has its own variables and its own specification; the     *)
(* variables of the other components stay at their idle values.            *)
(***************************************************************************)
EXTENDS Integers, Sequences, FiniteSets, TLC

VARIABLES
    \* remove_both_non_wearing (counts_cal_.py)
    nw_pc, data, sleep, rm_data, nonwear_start, pct_both_non_wear,
    \* the second pass as clean_ACs chains it (ActivityCounts.py)
    final_data, pct_single_no_wear,
    \* remove_single_non_wearing (counts_cal_.py)
    sg_pc, sg_data, sg_out, pct_single_non_wear,
    \* calculate_AC, read_watch_acc_folder, get_counts_csv, read_hr_folder
    acc_pc, folder, slots, slot_i, df_samsung, acc_read, filled, hr_pc, df_hr, hr_read,
    counts_sub, counts_watch,
    \* main, charging_timev1, charging_timev2 (01_Watch_charging.py)
    ch_pc, df_battery, study_start, study_end, charge_starttime, charge_endtime,
    rerun_pc, rerun_start_times, rerun_end_times,
    start_times, end_times, start_times2, end_times2, miss_battery,
    \* main, files_miss, files_to_time (02_Watch_times.py)
    fg_pc, present_files, fm_start_time, fm_end_time, missing_files, nofile_starts, nofile_ends,
    bt_start_times, bt_end_times, combined_times,
    \* core_csv (read_file.py)
    core_pc, core_rows, core_fmt, core_end, core_df,
    \* the acrophase columns of fit_cosinor (01_Cosinor_metrics.py)
    acro_pc, fit_acrophase, acrophase, acro_time, acro_hour,
    \* non_parametrics (02_CR_non_parametric.py)
    np_pc, np_days, np_data, np_result,
    \* the batch loop of 02_AC_comparison.py main()
    batch_pc, patient_list, patient_i, compare_rows, miss_file,
    \* the configuration of 01_Watch_charging.py
    cfg_pc, config_file, config, cfg_paths, output_folder_made, main_output

nw_vars == <<nw_pc, data, sleep, rm_data, nonwear_start, pct_both_non_wear,
             final_data, pct_single_no_wear>>
sg_vars == <<sg_pc, sg_data, sg_out, pct_single_non_wear>>
acc_vars == <<acc_pc, folder, slots, slot_i, df_samsung, acc_read, filled, hr_pc, df_hr, hr_read,
              counts_sub, counts_watch>>
ch_vars == <<ch_pc, df_battery, study_start, study_end, charge_starttime, charge_endtime,
             rerun_pc, rerun_start_times, rerun_end_times,
             start_times, end_times, start_times2, end_times2, miss_battery>>
fg_vars == <<fg_pc, present_files, fm_start_time, fm_end_time, missing_files,
             nofile_starts, nofile_ends, bt_start_times, bt_end_times, combined_times>>
core_vars == <<core_pc, core_rows, core_fmt, core_end, core_df>>
acro_vars == <<acro_pc, fit_acrophase, acrophase, acro_time, acro_hour>>
np_vars == <<np_pc, np_days, np_data, np_result>>
batch_vars == <<batch_pc, patient_list, patient_i, compare_rows, miss_file>>
cfg_vars == <<cfg_pc, config_file, config, cfg_paths, output_folder_made, main_output>>

(***************************************************************************)
(* Generic helpers on sequences and integers.                              *)
(***************************************************************************)
Abs(x) == IF x < 0 THEN -x ELSE x

Range(s) == {s[i] : i \in 1..Len(s)}

SetMin(S) == CHOOSE x \in S : \A y \in S : x <= y

SetMax(S) == 0 - SetMin({0 - x : x \in S})

\* The elements of a finite set of integers in increasing order.
RECURSIVE SortedSeq(_)
SortedSeq(S) ==
    IF S = {} THEN <<>>
    ELSE LET m == SetMin(S) IN <<m>> \o SortedSeq(S \ {m})

\* round(x * 100, 2) of a ratio num/den in [0, 1], in hundredths of a percent.
PctRound(num, den) == (2 * 10000 * num + den) \div (2 * den)

(***************************************************************************)
(* NonWearFilter, first pass: remove_both_non_wearing.                     *)
(* Time is counted in model ticks; the 15-minute window ('15T') is         *)
(* WindowLen ticks long.  A row is [time, watch, acti].                    *)
(***************************************************************************)
WindowLen == 2

MaxT == 5

MaxRows == 3

AbsThreshold == 500

\* the readings of a device: silent, or at the absolute threshold
ACValues == {0, AbsThreshold}

\* The merged table of merge_ACs: rows in time order, one per timestamp.
RowsOf(T, w, a) ==
    LET ts == SortedSeq(T)
    IN [i \in 1..Len(ts) |-> [time |-> ts[i], watch |-> w[ts[i]], acti |-> a[ts[i]]]]

\* sleep_csv: the (in_bed_time, out_bed_time) pairs of the sleep file.
SleepTables ==
    {<<>>} \cup {<<[t0 |-> iv[1], t1 |-> iv[2]]>> :
                   iv \in {p \in ((-1)..MaxT) \X (0..(MaxT + 1)) : p[1] < p[2]}}

\* check_both_zero(df_subset, str1, str2)
check_both_zero_watch_only(df_subset) ==
    \A i \in 1..Len(df_subset) : df_subset[i].watch = 0

check_both_zero(df_subset) ==
    /\ \A i \in 1..Len(df_subset) : df_subset[i].watch = 0
    /\ \A i \in 1..Len(df_subset) : df_subset[i].acti = 0

\* pd.date_range(start=min, end=max - 15min, freq='15T')
window_starts(d) ==
    LET lo == SetMin({d[i].time : i \in 1..Len(d)})
        hi == SetMax({d[i].time : i \in 1..Len(d)})
    IN {lo + k * WindowLen : k \in {j \in 0..(MaxT + 1) : lo + j * WindowLen <= hi - WindowLen}}

\* window = data[(data['time'] >= window_start) & (data['time'] < window_end)]
window_of(d, window_start) ==
    LET InWin(r) == r.time >= window_start /\ r.time < window_start + WindowLen
    IN SelectSeq(d, InWin)

\* the inner loop over the sleep intervals
insleep_closed(sl, window_start) ==
    \E k \in 1..Len(sl) : window_start >= sl[k].t0 /\ window_start <= sl[k].t1

insleep(sl, window_start) ==
    \E k \in 1..Len(sl) : window_start > sl[k].t0 /\ window_start < sl[k].t1

\* the branch of the loop body that drops the window
window_dropped(d, sl, window_start) ==
    LET window == window_of(d, window_start)
    IN /\ ~insleep(sl, window_start)
       /\ Len(window) >= 2
       /\ check_both_zero(SubSeq(window, 1, Len(window) - 1))

\* the loop of remove_both_non_wearing over the window starts, in order
RECURSIVE both_loop(_, _, _, _)
both_loop(d, sl, starts, acc) ==
    IF starts = <<>> THEN acc
    ELSE LET ws == Head(starts)
             window == window_of(d, ws)
         IN IF window_dropped(d, sl, ws)
            THEN both_loop(d, sl, Tail(starts),
                           [rm |-> acc.rm, nonwear |-> Append(acc.nonwear, window[1].time)])
            ELSE both_loop(d, sl, Tail(starts),
                           [rm |-> acc.rm \o window, nonwear |-> acc.nonwear])

remove_both_non_wearing(d, sl) ==
    LET res == both_loop(d, sl, SortedSeq(window_starts(d)), [rm |-> <<>>, nonwear |-> <<>>])
    IN [rm_data |-> res.rm,
        nonwear_start |-> res.nonwear,
        pct |-> PctRound(Len(d) - Len(res.rm), Len(d))]

NwInit ==
    /\ nw_pc = "start"
    /\ \E T \in SUBSET (0..MaxT) :
          /\ T # {}
          /\ Cardinality(T) <= MaxRows
          /\ \E w \in [T -> ACValues], a \in [T -> ACValues] : data = RowsOf(T, w, a)
    /\ sleep \in SleepTables
    /\ rm_data = <<>>
    /\ nonwear_start = <<>>
    /\ pct_both_non_wear = 0
    /\ final_data = <<>>
    /\ pct_single_no_wear = 0

NwIdle ==
    /\ nw_pc = "idle"
    /\ data = <<>>
    /\ sleep = <<>>
    /\ rm_data = <<>>
    /\ nonwear_start = <<>>
    /\ pct_both_non_wear = 0
    /\ final_data = <<>>
    /\ pct_single_no_wear = 0

RemoveBoth ==
    /\ nw_pc = "start"
    /\ LET res == remove_both_non_wearing(data, sleep)
       IN /\ rm_data' = res.rm_data
          /\ nonwear_start' = res.nonwear_start
          /\ pct_both_non_wear' = res.pct
    /\ nw_pc' = "done"
    /\ UNCHANGED <<data, sleep, final_data, pct_single_no_wear>>
    /\ UNCHANGED <<sg_vars, acc_vars, ch_vars, fg_vars, core_vars, acro_vars, np_vars, batch_vars, cfg_vars>>

(***************************************************************************)
(* NonWearFilter, second pass: remove_single_non_wearing.                  *)
(* A row is [diff, average]; values are multiples of Step count-units.     *)
(***************************************************************************)
Step == 100

MaxK == 16

DiffValues == {k * Step : k \in (-MaxK)..MaxK}

AverageValues == {k * Step : k \in (-1)..(MaxK \div 2 + 2)}

\* activity counts of one device in one epoch
ReadingValues == {k * Step : k \in 0..MaxK}

\* the diff and average columns with the average left as the sum
merge_ACs_sum(watch, acti) == [diff |-> watch - acti, average |-> watch + acti]

\* the diff and average columns merge_ACs computes for one merged row
merge_ACs(watch, acti) == [diff |-> watch - acti, average |-> (watch + acti) \div 2]

\* the rows quoted in the specification's examples, as a second and third row
ExampleRows ==
    {<<>>,
     <<[diff |-> 1500, average |-> 100]>>,
     <<[diff |-> 1500, average |-> 1000], [diff |-> 400, average |-> 100]>>}

\* condition_1 | condition_2 of one row
single_keep_nonstrict(r) ==
    \/ (r.diff < 2 * r.average /\ r.diff > (-2) * r.average)
    \/ Abs(r.diff) <= AbsThreshold

single_keep(r) ==
    \/ (r.diff < 2 * r.average /\ r.diff > (-2) * r.average)
    \/ Abs(r.diff) < AbsThreshold

remove_single_non_wearing(d) ==
    LET out == SelectSeq(d, single_keep)
    IN [rm_data |-> out, pct |-> PctRound(Len(d) - Len(out), Len(d))]

SgInit ==
    /\ sg_pc = "start"
    /\ \E rest \in ExampleRows :
          \/ \E x \in DiffValues, y \in AverageValues :
                sg_data = <<[diff |-> x, average |-> y]>> \o rest
          \/ \E watch \in ReadingValues, acti \in ReadingValues :
                sg_data = <<merge_ACs(watch, acti)>> \o rest
    /\ sg_out = <<>>
    /\ pct_single_non_wear = 0

SgIdle ==
    /\ sg_pc = "idle"
    /\ sg_data = <<>>
    /\ sg_out = <<>>
    /\ pct_single_non_wear = 0

RemoveSingle ==
    /\ sg_pc = "start"
    /\ LET res == remove_single_non_wearing(sg_data)
       IN /\ sg_out' = res.rm_data
          /\ pct_single_non_wear' = res.pct
    /\ sg_pc' = "done"
    /\ UNCHANGED sg_data
    /\ UNCHANGED <<nw_vars, acc_vars, ch_vars, fg_vars, core_vars, acro_vars, np_vars, batch_vars, cfg_vars>>

\* clean_ACs after the first pass: remove_single_non_wearing(rm_data) on the
\* rows the first pass kept, with the diff and average columns of merge_ACs;
\* the percentage divides by len(rm_data)
CleanACsSingle ==
    /\ nw_pc = "done"
    /\ IF rm_data = <<>>
       THEN /\ nw_pc' = "crashed"
            /\ UNCHANGED <<final_data, pct_single_no_wear>>
       ELSE LET merged == [i \in 1..Len(rm_data) |->
                              [time |-> rm_data[i].time, watch |-> rm_data[i].watch,
                               acti |-> rm_data[i].acti,
                               diff |-> merge_ACs(rm_data[i].watch, rm_data[i].acti).diff,
                               average |-> merge_ACs(rm_data[i].watch, rm_data[i].acti).average]]
                res == remove_single_non_wearing(merged)
            IN /\ final_data' = res.rm_data
               /\ pct_single_no_wear' = res.pct
               /\ nw_pc' = "cleaned"
    /\ UNCHANGED <<data, sleep, rm_data, nonwear_start, pct_both_non_wear>>
    /\ UNCHANGED <<sg_vars, acc_vars, ch_vars, fg_vars, core_vars, acro_vars, np_vars, batch_vars, cfg_vars>>

(***************************************************************************)
(* TimeSeriesReader and GapFiller: acc_watch_csv, read_watch_acc_folder,   *)
(* hr_csv, read_hr_folder (read_file.py), get_counts_csv and calculate_AC  *)
(* (counts_cal_.py).                                                       *)
(* Time is counted in ticks: the 20 ms sampling period is TimeRes ticks,   *)
(* a minute is MinuteTicks periods and an hour is HourMinutes minutes.     *)
(* A raw row is [ts, tsk, x, status]: tsk is "ok" for a numeric            *)
(* UnixTimestamp, "empty" for a missing one and "garbled" for text;        *)
(* x is the raw reading (NaN when the field is not numeric).               *)
(***************************************************************************)
TimeRes == 2

MinuteTicks == 4

HourMinutes == 8

NumHours == 2

Period == TimeRes

Minute == MinuteTicks * Period

Hour == HourMinutes * Minute

MinSamples == 50

RawScale == 4096

NaN == -1

floor_minute(t) == (t \div Minute) * Minute

ceil_minute(t) == ((t + Minute - 1) \div Minute) * Minute

\* replace(microsecond=0): the timestamp floored to the second, half a model minute
Second == Minute \div 2

floor_second(t) == (t \div Second) * Second

\* n consecutive rows, one tick apart, with the same reading
Burst(t0, n, x, tsk, status) ==
    [i \in 1..n |-> [ts |-> t0 + i - 1, tsk |-> tsk, x |-> x, status |-> status]]

\* The contents an hourly file may have: a first burst early in the hour,
\* then nothing, a later burst after a gap, rows of the previous hour, rows
\* without a usable timestamp, or rows without a usable reading; or nothing
\* but rows of the previous hour; or the later burst written before the
\* earlier one.
FileContents(h) ==
    LET base == h * Hour
        Full == Burst(base + 1, 30, RawScale, "ok", 1) \o Burst(base + Hour - 14, 30, 2 * RawScale, "ok", 1)
        First == {Burst(base + off, n, RawScale, "ok", 1) : off \in {1, 2}, n \in {20, 30}}
        Second2(n) ==
            {Burst(base + Hour - 14, n, 2 * RawScale, "ok", 1),
             Burst(base - 30, n, 2 * RawScale, "ok", 1),
             Burst(base + Hour - 14, n, 2 * RawScale, "empty", 1),
             Burst(base + Hour - 14, n, 2 * RawScale, "garbled", 1),
             Burst(base + Hour - 14, n, NaN, "ok", 0)}
        Stray == Burst(base - Hour + 1, MinSamples, RawScale, "ok", 1)
        Unordered == Burst(base + Hour - 14, 30, 2 * RawScale, "ok", 1) \o Burst(base + 1, 30, RawScale, "ok", 1)
    IN IF h = 0
       THEN First \cup {a \o b : a \in First, b \in Second2(20) \cup Second2(30)} \cup {Stray}
       ELSE {Full, Burst(base + 1, 30, RawScale, "ok", 1), Unordered}

Absent == <<>>

\* the hourly files of the watch folder: folder[h] holds the rows of the
\* file of hour h, Absent when the folder has no such file
Folders ==
    {f \in [0..(NumHours - 1) -> UNION {FileContents(h) \cup {Absent} : h \in 0..(NumHours - 1)}] :
        \A h \in 0..(NumHours - 1) : f[h] \in FileContents(h) \cup {Absent}}

\* the wear intervals (Start, End) handed to calculate_AC
SlotTables ==
    {<<[s |-> 0, e |-> NumHours * Hour]>>,
     <<[s |-> 5, e |-> Hour + 9]>>,
     <<[s |-> 46, e |-> Hour + Minute]>>,
     <<[s |-> 3, e |-> 40], [s |-> Hour, e |-> NumHours * Hour]>>}

\* pd.date_range(start, end, freq="20ms", inclusive='left')
date_range_left(start, end) ==
    {start + k * Period : k \in 0..((end - start) \div Period)} \cap (start..(end - 1))

\* the increasing sequence of the integers of S, all within lo..hi
SortedIn(S, lo, hi) ==
    LET InS(t) == t \in S
    IN SelectSeq([i \in 1..(hi - lo + 1) |-> lo + i - 1], InS)

\* df.loc[~df.index.duplicated(), :] keeps the first row of each timestamp
drop_duplicated_index(df) ==
    LET idxs == {i \in 1..Len(df) : \A j \in 1..(i - 1) : df[j].ts # df[i].ts}
        keep == SortedIn(idxs, 1, Len(df))
    IN [k \in 1..Len(keep) |-> df[keep[k]]]

\* df.index = df.index.sort_values(): the index is sorted, the rows stay
sort_index_values(df) ==
    LET T == {df[i].ts : i \in 1..Len(df)}
        ts == SortedIn(T, SetMin(T), SetMax(T))
    IN [k \in 1..Len(df) |-> [ts |-> ts[k], X |-> df[k].X]]

\* set_index('time'), the duplicated timestamps dropped, the index sorted:
\* the frame that is regridded
indexed_frame(scaled) == sort_index_values(drop_duplicated_index(scaled))

\* df.reindex(idx, method='nearest') at one grid point: the position, in
\* the increasing index ts, of the nearest index value, a tie going to the
\* larger index value
nearest_pos(ts, g) ==
    LET n == Len(ts)
        below == Cardinality({k \in 1..n : ts[k] <= g})
        above == n + 1 - Cardinality({k \in 1..n : ts[k] >= g})
    IN IF below = 0 THEN above
       ELSE IF above = n + 1 THEN below
       ELSE IF g - ts[below] < ts[above] - g THEN below
       ELSE above

reindex_nearest(df, lo, hi) ==
    LET grid == SortedIn(date_range_left(lo, hi), lo, hi)
        ts == [k \in 1..Len(df) |-> df[k].ts]
    IN [k \in 1..Len(grid) |-> [time |-> grid[k], X |-> df[nearest_pos(ts, grid[k])].X]]

\* x / 4096, the raw reading in milli-g
to_mg(x) == IF x = NaN THEN NaN ELSE x \div RawScale

\* acc_watch_csv with the minimum-count check made after the hour filter
acc_watch_csv_count_in_hour(rows, h) ==
    LET IsOk(r) == r.tsk = "ok"
        valid == SelectSeq(rows, IsOk)
        InHour(r) == h * Hour <= r.ts /\ r.ts <= h * Hour + Hour
        inhour == SelectSeq(valid, InHour)
        scaled == [i \in 1..Len(inhour) |-> [ts |-> inhour[i].ts, X |-> to_mg(inhour[i].x)]]
        T == {scaled[i].ts : i \in 1..Len(scaled)}
    IN IF Len(inhour) < MinSamples THEN [status |-> "none", rows |-> <<>>]
       ELSE [status |-> "data",
             rows |-> reindex_nearest(indexed_frame(scaled),
                                      floor_minute(SetMin(T)), ceil_minute(SetMax(T)))]

\* acc_watch_csv(file_path) for the file of hour h
acc_watch_csv(rows, h) ==
    LET IsOk(r) == r.tsk = "ok"
        valid == SelectSeq(rows, IsOk)
        InHour(r) == h * Hour <= r.ts /\ r.ts <= h * Hour + Hour
        inhour == SelectSeq(valid, InHour)
        scaled == [i \in 1..Len(inhour) |-> [ts |-> inhour[i].ts, X |-> to_mg(inhour[i].x)]]
        T == {scaled[i].ts : i \in 1..Len(scaled)}
    IN IF Len(valid) < MinSamples THEN [status |-> "none", rows |-> <<>>]
       ELSE IF inhour = <<>> THEN [status |-> "error", rows |-> <<>>]
       ELSE [status |-> "data",
             rows |-> reindex_nearest(indexed_frame(scaled),
                                      floor_minute(SetMin(T)), ceil_minute(SetMax(T)))]

\* concatenation of the sequences f[1], ..., f[n]
RECURSIVE ConcatAll(_, _)
ConcatAll(f, n) == IF n = 0 THEN <<>> ELSE ConcatAll(f, n - 1) \o f[n]

\* the reading loop without its try / except: the first file that raises
\* ends the loop, and the files after it are not read
read_watch_acc_folder_no_except(fd, start_time, end_time) ==
    LET InRange(h) == start_time - Hour < h * Hour /\ h * Hour < end_time
        one == [h \in 0..(NumHours - 1) |->
                   IF fd[h] = Absent THEN [status |-> "absent", rows |-> <<>>]
                   ELSE IF ~InRange(h) THEN [status |-> "skipped", rows |-> <<>>]
                   ELSE acc_watch_csv(fd[h], h)]
        res == [h \in 0..(NumHours - 1) |->
                   IF \E g \in 0..(h - 1) : one[g].status = "error"
                   THEN [status |-> "skipped", rows |-> <<>>] ELSE one[h]]
        df_all == ConcatAll([k \in 1..NumHours |-> res[k - 1].rows], NumHours)
        InSlot(r) == r.time >= start_time /\ r.time < end_time
    IN [status |-> IF \E h \in 0..(NumHours - 1) : res[h].status = "data" THEN "ok" ELSE "error",
        rows |-> SelectSeq(df_all, InSlot),
        files |-> [h \in 0..(NumHours - 1) |-> res[h].status]]

\* read_watch_acc_folder(folder_path, start_time, end_time)
read_watch_acc_folder(fd, start_time, end_time) ==
    LET InRange(h) == start_time - Hour < h * Hour /\ h * Hour < end_time
        res == [h \in 0..(NumHours - 1) |->
                   IF fd[h] = Absent THEN [status |-> "absent", rows |-> <<>>]
                   ELSE IF ~InRange(h) THEN [status |-> "skipped", rows |-> <<>>]
                   ELSE acc_watch_csv(fd[h], h)]
        df_all == ConcatAll([k \in 1..NumHours |-> res[k - 1].rows], NumHours)
        InSlot(r) == r.time >= start_time /\ r.time < end_time
    IN [status |-> IF \E h \in 0..(NumHours - 1) : res[h].status = "data" THEN "ok" ELSE "error",
        rows |-> SelectSeq(df_all, InSlot),
        files |-> [h \in 0..(NumHours - 1) |-> res[h].status]]

\* get_counts(df, freq, epoch) of agcounts cuts the array into consecutive
\* blocks of freq * epoch samples, by position, gives one row per full block
\* and drops the rest; the filtering inside a block is abstracted to the sum
\* of the block.  MinuteTicks samples make one epoch.
RECURSIVE block_sum(_, _, _)
block_sum(arr, lo, hi) == IF lo > hi THEN 0 ELSE arr[lo] + block_sum(arr, lo + 1, hi)

get_counts(arr) ==
    [k \in 1..(Len(arr) \div MinuteTicks) |->
        block_sum(arr, (k - 1) * MinuteTicks + 1, k * MinuteTicks)]

\* ts.unique() without the floor to the epoch
ts_unique(df) ==
    LET First(i) == \A j \in 1..(i - 1) : df[j].time # df[i].time
        idx == SelectSeq([i \in 1..Len(df) |-> i], First)
    IN [k \in 1..Len(idx) |-> df[idx[k]].time]

\* ts = ts.dt.floor(time_freq); ts = ts.unique(): the epochs of the rows,
\* each once, in the order of their first row
ts_unique_floor(df) ==
    LET First(i) == \A j \in 1..(i - 1) : floor_minute(df[j].time) # floor_minute(df[i].time)
        idx == SelectSeq([i \in 1..Len(df) |-> i], First)
    IN [k \in 1..Len(idx) |-> floor_minute(df[idx[k]].time)]

\* the counts frame of get_counts_csv from the filled frame df: the three
\* axes (the model's files carry one reading for X, Y and Z), AC as its
\* square Axis1^2 + Axis2^2 + Axis3^2, and the labels ts[0 : counts.shape[0]]
\* put beside the rows (NaN where the labels run out)
counts_frame(df) ==
    LET counts == get_counts([i \in 1..Len(df) |-> df[i].X])
        ts == ts_unique_floor(df)
    IN [k \in 1..Len(counts) |->
           [time |-> IF k <= Len(ts) THEN ts[k] ELSE NaN,
            Axis1 |-> counts[k], Axis2 |-> counts[k], Axis3 |-> counts[k],
            AC2 |-> counts[k] * counts[k] + counts[k] * counts[k] + counts[k] * counts[k]]]

\* the gap filling of get_counts_csv: raw.dropna(), the 20 ms grid from the
\* floored first minute to the ceiled last minute, a zero row for every grid
\* time that raw lacks, and the whole sorted by time
get_counts_csv(raw) ==
    LET NotNa(r) == r.X # NaN
        raw2 == SelectSeq(raw, NotNa)
        T == {raw2[i].time : i \in 1..Len(raw2)}
        rounded_start_time == floor_minute(SetMin(T))
        rounded_end_time == ceil_minute(SetMax(T))
        idx == date_range_left(rounded_start_time, rounded_end_time)
        missing_time == idx \ T
        all == T \cup missing_time
        ts == SortedIn(all, SetMin(all), SetMax(all))
        RowsAt(t) ==
            IF t \in missing_time THEN <<[time |-> t, X |-> 0]>>
            ELSE LET At(r) == r.time = t IN SelectSeq(raw2, At)
        df == ConcatAll([k \in 1..Len(ts) |-> RowsAt(ts[k])], Len(ts))
    IN IF raw2 = <<>> THEN [status |-> "error", df |-> <<>>, counts |-> <<>>]
       ELSE [status |-> "ok", df |-> df, counts |-> counts_frame(df)]

\* hr_csv(file_path) for the file of hour h
hr_csv(rows, h) ==
    LET NotEmpty(r) == r.tsk # "empty"
        present == SelectSeq(rows, NotEmpty)
        InHour(r) == r.tsk = "ok" /\ h * Hour <= r.ts /\ r.ts <= h * Hour + Hour
        inhour == SelectSeq(present, InHour)
        HasHr(r) == r.status = 1 /\ r.x # NaN
        good == SelectSeq(inhour, HasHr)
    IN IF Len(present) < MinSamples THEN [status |-> "none", rows |-> <<>>]
       ELSE [status |-> "data",
             rows |-> [i \in 1..Len(good) |-> [time |-> floor_second(good[i].ts), hr |-> good[i].x]]]

\* read_hr_folder(folder_path)
read_hr_folder(fd) ==
    LET res == [h \in 0..(NumHours - 1) |->
                   IF fd[h] = Absent THEN [status |-> "absent", rows |-> <<>>]
                   ELSE hr_csv(fd[h], h)]
    IN [rows |-> ConcatAll([k \in 1..NumHours |-> res[k - 1].rows], NumHours),
        files |-> [h \in 0..(NumHours - 1) |-> res[h].status]]

AccInit ==
    /\ acc_pc = "loop"
    /\ folder \in Folders
    /\ slots \in SlotTables
    /\ slot_i = 1
    /\ df_samsung = <<>>
    /\ acc_read = [h \in 0..(NumHours - 1) |-> "unread"]
    /\ filled = <<>>
    /\ counts_sub = <<>>
    /\ counts_watch = <<>>
    /\ hr_pc = "start"
    /\ df_hr = <<>>
    /\ hr_read = [h \in 0..(NumHours - 1) |-> "unread"]

AccIdle ==
    /\ acc_pc = "idle"
    /\ folder = <<>>
    /\ slots = <<>>
    /\ slot_i = 0
    /\ df_samsung = <<>>
    /\ acc_read = <<>>
    /\ filled = <<>>
    /\ counts_sub = <<>>
    /\ counts_watch = <<>>
    /\ hr_pc = "idle"
    /\ df_hr = <<>>
    /\ hr_read = <<>>

\* one pass of the loop of calculate_AC over the wear intervals
Timeslot ==
    /\ acc_pc = "loop"
    /\ slot_i <= Len(slots)
    /\ LET rd == read_watch_acc_folder(folder, slots[slot_i].s, slots[slot_i].e)
           gc == get_counts_csv(rd.rows)
       IN /\ acc_read' = rd.files
          /\ df_samsung' = IF rd.status = "ok" THEN rd.rows ELSE <<>>
          /\ filled' = IF rd.status = "ok" /\ rd.rows # <<>> THEN gc.df ELSE <<>>
          /\ counts_sub' = IF rd.status = "ok" /\ rd.rows # <<>> THEN gc.counts ELSE <<>>
          /\ counts_watch' = IF rd.status = "ok" /\ rd.rows # <<>>
                             THEN counts_watch \o gc.counts ELSE counts_watch
          /\ acc_pc' = IF rd.status = "ok" /\ rd.rows # <<>> /\ gc.status = "error"
                       THEN "crashed" ELSE "loop"
    /\ slot_i' = slot_i + 1
    /\ UNCHANGED <<folder, slots, hr_pc, df_hr, hr_read>>
    /\ UNCHANGED <<nw_vars, sg_vars, ch_vars, fg_vars, core_vars, acro_vars, np_vars, batch_vars, cfg_vars>>

\* the end of calculate_AC: counts_watch.to_csv(...)
FinishAC ==
    /\ acc_pc = "loop"
    /\ slot_i > Len(slots)
    /\ acc_pc' = "done"
    /\ UNCHANGED <<folder, slots, slot_i, df_samsung, acc_read, filled, hr_pc, df_hr, hr_read,
                   counts_sub, counts_watch>>
    /\ UNCHANGED <<nw_vars, sg_vars, ch_vars, fg_vars, core_vars, acro_vars, np_vars, batch_vars, cfg_vars>>

ReadHrFolder ==
    /\ hr_pc = "start"
    /\ LET rd == read_hr_folder(folder)
       IN /\ df_hr' = rd.rows
          /\ hr_read' = rd.files
    /\ hr_pc' = "done"
    /\ UNCHANGED <<folder, slots, slot_i, df_samsung, acc_read, filled, acc_pc,
                   counts_sub, counts_watch>>
    /\ UNCHANGED <<nw_vars, sg_vars, ch_vars, fg_vars, core_vars, acro_vars, np_vars, batch_vars, cfg_vars>>

(***************************************************************************)
(* ChargingDetector: 01_Watch_charging.py.  Time is counted in ticks,      *)
(* TicksPerMinute to the minute; df_battery has one row per tick.          *)
(***************************************************************************)
TicksPerMinute == 2
MaxSegs == 3
MaxShortRows == 5
MaxLongSegs == 5
FirstRowTime == 100
StartLevel == 50
window_size == 40
half_window == window_size \div 2
buffer_minute == 5
increase_thres == 5

\* stretches of a battery recording: n rows with one state code and a level
\* that changes by slope per row (state 0 is a code outside 1..6)
SegTypes ==
    {[n |-> c, state |-> k[1], slope |-> k[2]] :
        c \in {1, half_window + 1},
        k \in {<<1, 0>>, <<1, -1>>, <<3, 1>>, <<3, 0>>, <<0, 0>>}}

\* The battery files are hourly, battery_csv numbers the rows of a file
\* from 0 (reset_index), and find_charging_time concatenates the files
\* without renumbering: the index label of the row of time t is the number
\* of rows before it in its own file.
FileTicks == 60 * TicksPerMinute
file_index(t) ==
    IF t \div FileTicks = FirstRowTime \div FileTicks THEN t - FirstRowTime ELSE t % FileTicks

RECURSIVE SegRows(_, _, _, _)
SegRows(segs, k, t, lvl) ==
    IF k > Len(segs) THEN <<>>
    ELSE [j \in 1..segs[k].n |->
             [index |-> file_index(t + j - 1), time |-> t + j - 1,
              state |-> segs[k].state, level |-> lvl + j * segs[k].slope]]
         \o SegRows(segs, k + 1, t + segs[k].n, lvl + segs[k].n * segs[k].slope)

\* recordings of up to MaxShortRows rows in which the state code may change
\* at every row
ShortSegTypes == {[n |-> 1, state |-> c, slope |-> 0] : c \in {0, 1, 3}}

\* recordings of several charges: MaxSegs + 1 to MaxLongSegs stretches of
\* half_window + 1 rows, level flat or falling off the charger and rising on it
LongSegTypes ==
    {[n |-> half_window + 1, state |-> k[1], slope |-> k[2]] :
        k \in {<<1, 0>>, <<1, -1>>, <<3, 1>>}}

BatterySeries ==
    {SegRows(segs, 1, FirstRowTime, StartLevel) :
        segs \in UNION {[1..m -> SegTypes] : m \in 1..MaxSegs}}
    \cup
    {SegRows(segs, 1, FirstRowTime, StartLevel) :
        segs \in UNION {[1..m -> LongSegTypes] : m \in (MaxSegs + 1)..MaxLongSegs}}
    \cup
    {SegRows(segs, 1, FirstRowTime, StartLevel) :
        segs \in UNION {[1..m -> ShortSegTypes] : m \in 1..MaxShortRows}}

\* df_battery['state'].shift(1).isin([1,2]) & df_battery['state'].isin([3,4,5,6])
increase_mask(df, i) == i > 1 /\ df[i - 1].state \in {1, 2} /\ df[i].state \in 3..6

\* the mask that flags the first row after the charge in place of its last row
decrease_mask_after(df, i) == i > 1 /\ df[i - 1].state \in 3..6 /\ df[i].state \in {1, 2}

\* df_battery['state'].shift(-1).isin([1,2]) & df_battery['state'].isin([3,4,5,6])
decrease_mask(df, i) == i < Len(df) /\ df[i + 1].state \in {1, 2} /\ df[i].state \in 3..6

\* the selection by the index labels of the rows where the mask holds: it
\* takes every row that carries one of these labels
loc_labels(df, mask) ==
    LET labels == {df[i].index : i \in mask}
        Hit(i) == df[i].index \in labels
    IN SelectSeq([i \in 1..Len(df) |-> i], Hit)

\* df_battery.loc[mask, 'time'] with a boolean mask that has the index of
\* the frame: the positions of the rows where the mask holds, in order
loc_mask(df, mask) ==
    LET Hit(i) == i \in mask
    IN SelectSeq([i \in 1..Len(df) |-> i], Hit)

\* find_charging_time on the concatenated battery frame df
find_charging_time(df) ==
    LET inc_rows == loc_mask(df, {i \in 1..Len(df) : increase_mask(df, i)})
        dec_rows == loc_mask(df, {i \in 1..Len(df) : decrease_mask(df, i)})
        starts == [k \in 1..Len(inc_rows) |-> df[inc_rows[k]].time - 2 * TicksPerMinute]
        ends == [k \in 1..Len(dec_rows) |-> df[dec_rows[k]].time + 2 * TicksPerMinute]
        ce == IF Len(starts) < Len(ends) THEN Tail(ends) ELSE ends
        cs == IF Len(starts) > Len(ends) THEN SubSeq(starts, 1, Len(starts) - 1) ELSE starts
    IN [status |-> IF Len(cs) > Len(ce) THEN "error" ELSE "ok",
        charge_starttime |-> cs,
        charge_endtime |-> ce]

\* charging_timev1: the state-transition pass
charging_timev1(df, st, et) ==
    LET r == find_charging_time(df)
    IN [status |-> r.status,
        charge_starttime |-> r.charge_starttime,
        charge_endtime |-> r.charge_endtime,
        start_times |-> <<st>> \o r.charge_endtime,
        end_times |-> r.charge_starttime \o <<et>>]

\* current_window['level'].diff() at position j >= 1 of the window at offset i
level_diff(df, i, j) == df[i + j + 1].level - df[i + j].level

RECURSIVE diff_sum(_, _, _, _)
diff_sum(df, i, lo, hi) ==
    IF lo > hi THEN 0 ELSE level_diff(df, i, lo) + diff_sum(df, i, lo + 1, hi)

\* level_diff[:half_window].all() <= 0 and level_diff[half_window:].sum() > increase_thres
charge_start_window(df, i) ==
    LET all_nonzero == \A j \in 1..(half_window - 1) : level_diff(df, i, j) # 0
    IN /\ (IF all_nonzero THEN 1 ELSE 0) <= 0
       /\ diff_sum(df, i, half_window, window_size - 1) > increase_thres

\* the two tests of the second scan of charging_timev2
charge_end_window(df, i) ==
    \/ /\ diff_sum(df, i, 1, half_window - 1) > 5
       /\ diff_sum(df, i, half_window, window_size - 1) <= -1
    \/ /\ \A j \in 0..(half_window - 1) : df[i + j + 1].state > 2
       /\ \A j \in (half_window + 1)..(window_size - 1) : df[i + j + 1].state <= 2

\* the first scan with the index moved by one sample after a match too
RECURSIVE end_times2_scan_by_one(_, _)
end_times2_scan_by_one(df, i) ==
    IF i < Len(df) - window_size
    THEN IF charge_start_window(df, i)
         THEN <<df[i + 1].time - buffer_minute * TicksPerMinute>>
              \o end_times2_scan_by_one(df, i + 1)
         ELSE end_times2_scan_by_one(df, i + 1)
    ELSE <<>>

RECURSIVE end_times2_scan(_, _)
end_times2_scan(df, i) ==
    IF i < Len(df) - window_size
    THEN IF charge_start_window(df, i)
         THEN <<df[i + 1].time - buffer_minute * TicksPerMinute>>
              \o end_times2_scan(df, i + window_size)
         ELSE end_times2_scan(df, i + 1)
    ELSE <<>>

RECURSIVE start_times2_scan(_, _)
start_times2_scan(df, i) ==
    IF i < Len(df) - window_size
    THEN IF charge_end_window(df, i)
         THEN <<df[i + window_size].time + buffer_minute * TicksPerMinute>>
              \o start_times2_scan(df, i + window_size)
         ELSE start_times2_scan(df, i + 1)
    ELSE <<>>

\* df_battery.reset_index(drop=True, inplace=True)
reset_index(df) == [i \in 1..Len(df) |-> [df[i] EXCEPT !.index = i - 1]]

\* charging_timev2: the level-trend pass
charging_timev2(df, st, et) ==
    [start_times2 |-> <<st>> \o start_times2_scan(df, 0),
     end_times2 |-> end_times2_scan(df, 0) \o <<et>>]

\* the table main() would write if it took the lists of charging_timev1
miss_battery_v1(st1, et1, st2, et2) ==
    [k \in 1..Len(st1) |-> [Start |-> st1[k], End |-> et1[k]]]

\* miss_battery = pd.DataFrame({'Start': start_times2, 'End': end_times2})
miss_battery_frame(st1, et1, st2, et2) ==
    [k \in 1..Len(st2) |-> [Start |-> st2[k], End |-> et2[k]]]

ChInit ==
    /\ ch_pc = "start"
    /\ df_battery \in BatterySeries
    /\ study_start \in {FirstRowTime, FirstRowTime - 10 * TicksPerMinute}
    /\ study_end \in {df_battery[Len(df_battery)].time + 1,
                      df_battery[Len(df_battery)].time + 10 * TicksPerMinute}
    /\ rerun_pc = "no"
    /\ rerun_start_times = <<>>
    /\ rerun_end_times = <<>>
    /\ charge_starttime = <<>>
    /\ charge_endtime = <<>>
    /\ start_times = <<>>
    /\ end_times = <<>>
    /\ start_times2 = <<>>
    /\ end_times2 = <<>>
    /\ miss_battery = <<>>

ChIdle ==
    /\ ch_pc = "idle"
    /\ df_battery = <<>>
    /\ study_start = 0
    /\ study_end = 0
    /\ rerun_pc = "no"
    /\ rerun_start_times = <<>>
    /\ rerun_end_times = <<>>
    /\ charge_starttime = <<>>
    /\ charge_endtime = <<>>
    /\ start_times = <<>>
    /\ end_times = <<>>
    /\ start_times2 = <<>>
    /\ end_times2 = <<>>
    /\ miss_battery = <<>>

\* main(): approach 1.  The check loop of find_charging_time indexes
\* charge_endtime by the positions of charge_starttime and raises when the
\* reconciliation left more starts than ends.
ChargingTimeV1 ==
    /\ ch_pc = "start"
    /\ LET r == charging_timev1(df_battery, study_start, study_end)
       IN /\ ch_pc' = IF r.status = "error" THEN "crashed" ELSE "v1"
          /\ charge_starttime' = r.charge_starttime
          /\ charge_endtime' = r.charge_endtime
          /\ start_times' = IF r.status = "error" THEN <<>> ELSE r.start_times
          /\ end_times' = IF r.status = "error" THEN <<>> ELSE r.end_times
    /\ UNCHANGED <<df_battery, study_start, study_end, start_times2, end_times2, miss_battery,
                   rerun_pc, rerun_start_times, rerun_end_times>>
    /\ UNCHANGED <<nw_vars, sg_vars, acc_vars, fg_vars, core_vars, acro_vars, np_vars, batch_vars, cfg_vars>>

\* main(): approach 2
ChargingTimeV2 ==
    /\ ch_pc = "v1"
    /\ LET r == charging_timev2(df_battery, study_start, study_end)
       IN /\ start_times2' = r.start_times2
          /\ end_times2' = r.end_times2
    /\ df_battery' = reset_index(df_battery)
    /\ ch_pc' = "v2"
    /\ UNCHANGED <<study_start, study_end, charge_starttime, charge_endtime,
                   start_times, end_times, miss_battery,
                   rerun_pc, rerun_start_times, rerun_end_times>>
    /\ UNCHANGED <<nw_vars, sg_vars, acc_vars, fg_vars, core_vars, acro_vars, np_vars, batch_vars, cfg_vars>>

\* main(): the check loop over start_times2 and the DataFrame constructor
\* raise when the two lists differ in length; otherwise the table is written
WriteMissBattery ==
    /\ ch_pc = "v2"
    /\ IF Len(start_times2) # Len(end_times2)
       THEN ch_pc' = "crashed" /\ miss_battery' = miss_battery
       ELSE /\ ch_pc' = "done"
            /\ miss_battery' = miss_battery_frame(start_times, end_times, start_times2, end_times2)
    /\ UNCHANGED <<df_battery, study_start, study_end, charge_starttime, charge_endtime,
                   start_times, end_times, start_times2, end_times2,
                   rerun_pc, rerun_start_times, rerun_end_times>>
    /\ UNCHANGED <<nw_vars, sg_vars, acc_vars, fg_vars, core_vars, acro_vars, np_vars, batch_vars, cfg_vars>>

\* a second call of charging_timev1 on the same battery series and study
\* period once main() is through, on the frame as charging_timev2 left it
ChargingTimeV1Again ==
    /\ ch_pc = "done"
    /\ rerun_pc = "no"
    /\ LET r == charging_timev1(df_battery, study_start, study_end)
       IN /\ rerun_pc' = IF r.status = "error" THEN "crashed" ELSE "yes"
          /\ rerun_start_times' = IF r.status = "error" THEN <<>> ELSE r.start_times
          /\ rerun_end_times' = IF r.status = "error" THEN <<>> ELSE r.end_times
    /\ UNCHANGED <<ch_pc, df_battery, study_start, study_end, charge_starttime, charge_endtime,
                   start_times, end_times, start_times2, end_times2, miss_battery>>
    /\ UNCHANGED <<nw_vars, sg_vars, acc_vars, fg_vars, core_vars, acro_vars, np_vars, batch_vars, cfg_vars>>

ChNext == ChargingTimeV1 \/ ChargingTimeV2 \/ WriteMissBattery \/ ChargingTimeV1Again

(***************************************************************************)
(* FileGapDetector: 02_Watch_times.py.  Time is counted in ticks, HourTicks *)
(* to the hour, from midnight of day 0.  A file name '%d.%m.%y_%H.csv' is   *)
(* the record [d, H] of its day and its hour of the day.                    *)
(***************************************************************************)
HourTicks == 2
DayHours == 24
FirstHour == 22
NumFileHours == 6

\* current_time.strftime('%d.%m.%y_%H')
strftime_dH(t) == [d |-> (t \div HourTicks) \div DayHours, H |-> (t \div HourTicks) % DayHours]

\* datetime.datetime.strptime(name, "%d.%m.%y_%H")
strptime_dH(name) == (name.d * DayHours + name.H) * HourTicks

RECURSIVE expected_files(_, _)
expected_files(current_time, et) ==
    IF current_time < et
    THEN <<strftime_dH(current_time)>> \o expected_files(current_time + HourTicks, et)
    ELSE <<>>

\* files_miss(start_time, end_time, folder), listing the folder as fs
files_miss(st, et, fs) ==
    LET missing == Range(expected_files(st, et)) \ fs
        keys == SortedSeq({strptime_dH(f) : f \in missing})
    IN [k \in 1..Len(keys) |-> CHOOSE f \in missing : strptime_dH(f) = keys[k]]

\* the test with >= in place of >
gap_at_least_hour(cur, prev) == cur - prev >= HourTicks

\* current_datetime - previous_datetime > datetime.timedelta(hours=1)
gap_exceeds_hour(cur, prev) == cur - prev > HourTicks

\* the block that closes the run from current_start to previous_datetime
close_run(current_start, previous_datetime, acc) ==
    IF current_start = strftime_dH(previous_datetime)
    THEN LET tmp == strptime_dH(current_start)
         IN [nofile_starts |-> Append(acc.nofile_starts, tmp),
             nofile_ends |-> Append(acc.nofile_ends, tmp + HourTicks)]
    ELSE [nofile_starts |-> Append(acc.nofile_starts, strptime_dH(current_start)),
          nofile_ends |-> Append(acc.nofile_ends, previous_datetime + HourTicks)]

\* the for loop of files_to_time from position k on; current_start and
\* previous_datetime are <<>> for None and <<v>> for a value v
RECURSIVE files_to_time_loop(_, _, _, _, _)
files_to_time_loop(missing, k, current_start, previous_datetime, acc) ==
    IF k > Len(missing)
    THEN IF current_start # <<>>
         THEN close_run(current_start[1], previous_datetime[1], acc)
         ELSE acc
    ELSE LET current_datetime == strptime_dH(missing[k])
             brk == /\ previous_datetime # <<>>
                    /\ gap_exceeds_hour(current_datetime, previous_datetime[1])
             acc1 == IF brk /\ current_start # <<>>
                     THEN close_run(current_start[1], previous_datetime[1], acc)
                     ELSE acc
             cs1 == IF brk THEN <<>> ELSE current_start
             cs2 == IF cs1 = <<>> THEN <<strftime_dH(current_datetime)>> ELSE cs1
         IN files_to_time_loop(missing, k + 1, cs2, <<current_datetime>>, acc1)

files_to_time(missing) ==
    files_to_time_loop(missing, 1, <<>>, <<>>, [nofile_starts |-> <<>>, nofile_ends |-> <<>>])

HourNames == {strftime_dH(h * HourTicks) : h \in FirstHour..(FirstHour + NumFileHours - 1)}

\* the charging gaps a battery table may hold, as offsets from its first Start
GapMenu == {<<1, 2>>, <<3, 5>>, <<4, 7>>, <<7, 8>>, <<9, 10>>}

GapChoices ==
    {G \in SUBSET GapMenu : \A g \in G : \A h \in G : g = h \/ g[2] <= h[1] \/ h[2] <= g[1]}

\* read_times(battery file): the Start and End columns of the valid-wear
\* table with the charging gaps G taken out of [st, et)
read_times_start(st, G) == <<st>> \o SortedSeq({st + g[2] : g \in G})

read_times_end(st, et, G) == SortedSeq({st + g[1] : g \in G}) \o <<et>>

\* Series.sort_values() of a sequence of times, equal times kept
sort_values(sq) ==
    [k \in 1..Len(sq) |->
        CHOOSE v \in Range(sq) :
            /\ Cardinality({i \in 1..Len(sq) : sq[i] < v}) < k
            /\ k <= Cardinality({i \in 1..Len(sq) : sq[i] <= v})]

\* the test with > in place of "not <"
is_problem_strict(cs, ce) == cs > ce

\* if not combined_starts.iloc[i] < combined_ends.iloc[i]
is_problem(cs, ce) == ~(cs < ce)

\* combine_battery_nofile(start_times, end_times, nofile_starts, nofile_ends)
combine_battery_nofile(st, et, ns, ne) ==
    LET combined_starts == sort_values(st \o ne)
        combined_ends == sort_values(et \o ns)
        Kept(i) == ~is_problem(combined_starts[i], combined_ends[i])
        kept == SelectSeq([i \in 1..Len(combined_starts) |-> i], Kept)
    IN [k \in 1..Len(kept) |->
           [Start |-> combined_starts[kept[k]], End |-> combined_ends[kept[k]]]]

FgInit ==
    /\ fg_pc = "start"
    /\ present_files \in SUBSET HourNames
    /\ fm_start_time \in {FirstHour * HourTicks, FirstHour * HourTicks + 1}
    /\ fm_end_time \in {(FirstHour + NumFileHours) * HourTicks,
                        (FirstHour + NumFileHours) * HourTicks - 1}
    /\ missing_files = <<>>
    /\ nofile_starts = <<>>
    /\ nofile_ends = <<>>
    /\ \E G \in GapChoices :
          /\ bt_start_times = read_times_start(fm_start_time, G)
          /\ bt_end_times = read_times_end(fm_start_time, fm_end_time, G)
    /\ combined_times = <<>>

FgIdle ==
    /\ fg_pc = "idle"
    /\ present_files = {}
    /\ fm_start_time = 0
    /\ fm_end_time = 0
    /\ missing_files = <<>>
    /\ nofile_starts = <<>>
    /\ nofile_ends = <<>>
    /\ bt_start_times = <<>>
    /\ bt_end_times = <<>>
    /\ combined_times = <<>>

\* main(): missing_files = files_miss(start_times.iloc[0], end_times.iloc[-1], folder)
FilesMiss ==
    /\ fg_pc = "start"
    /\ missing_files' = files_miss(fm_start_time, fm_end_time, present_files)
    /\ fg_pc' = "missing"
    /\ UNCHANGED <<present_files, fm_start_time, fm_end_time, nofile_starts, nofile_ends,
                   bt_start_times, bt_end_times, combined_times>>
    /\ UNCHANGED <<nw_vars, sg_vars, acc_vars, ch_vars, core_vars, acro_vars, np_vars, batch_vars, cfg_vars>>

\* main(): nofile_starts, nofile_ends = files_to_time(missing_files)
FilesToTime ==
    /\ fg_pc = "missing"
    /\ LET r == files_to_time(missing_files)
       IN /\ nofile_starts' = r.nofile_starts
          /\ nofile_ends' = r.nofile_ends
    /\ fg_pc' = "done"
    /\ UNCHANGED <<present_files, fm_start_time, fm_end_time, missing_files,
                   bt_start_times, bt_end_times, combined_times>>
    /\ UNCHANGED <<nw_vars, sg_vars, acc_vars, ch_vars, core_vars, acro_vars, np_vars, batch_vars, cfg_vars>>

\* main(): combined_times = combine_battery_nofile(...), then to_csv
CombineBatteryNofile ==
    /\ fg_pc = "done"
    /\ combined_times' =
          combine_battery_nofile(bt_start_times, bt_end_times, nofile_starts, nofile_ends)
    /\ fg_pc' = "combined"
    /\ UNCHANGED <<present_files, fm_start_time, fm_end_time, missing_files,
                   nofile_starts, nofile_ends, bt_start_times, bt_end_times>>
    /\ UNCHANGED <<nw_vars, sg_vars, acc_vars, ch_vars, core_vars, acro_vars, np_vars, batch_vars, cfg_vars>>

FgNext == FilesMiss \/ FilesToTime \/ CombineBatteryNofile

(***************************************************************************)
(* The core temperature reader: core_csv (read_file.py).  Time is counted  *)
(* in ticks, CoreMinuteTicks to the minute, from the study start.  A row   *)
(* of the file is [dt, cbt, quality, skin].                                *)
(***************************************************************************)
CoreMinuteTicks == 2
MaxCoreRows == 3
CoreMinutes == 2

\* strptime(x, '%d.%m.%Y %H:%M:%S').strftime('%Y-%m-%d %H:%M'): the seconds are cut
strftime_minute(t) == (t \div CoreMinuteTicks) * CoreMinuteTicks

\* .dt.round('min'), halves to the even minute
round_minute(t) ==
    LET lo == strftime_minute(t)
        r == t - lo
    IN IF 2 * r < CoreMinuteTicks THEN lo
       ELSE IF 2 * r > CoreMinuteTicks THEN lo + CoreMinuteTicks
       ELSE IF (lo \div CoreMinuteTicks) % 2 = 0 THEN lo ELSE lo + CoreMinuteTicks

\* df.drop_duplicates(keep='last'): of the rows that are equal in every
\* column only the last one stays
drop_duplicates_last(df) ==
    LET Kept(i) == \A j \in (i + 1)..Len(df) : df[j] # df[i]
        idx == SelectSeq([i \in 1..Len(df) |-> i], Kept)
    IN [k \in 1..Len(idx) |-> df[idx[k]]]

\* core_csv(path, times, patient_ID) for a file with the rows `rows`, the
\* time format fmt and the study period [0, et)
core_csv(rows, fmt, et) ==
    LET parsed == [i \in 1..Len(rows) |->
                      [DateTime |-> IF fmt = 1 THEN strftime_minute(rows[i].dt) ELSE rows[i].dt,
                       CBT |-> rows[i].cbt, qualityT |-> rows[i].quality, SkinT |-> rows[i].skin]]
        Good(r) == r.qualityT >= 3
        InStudy(r) == r.DateTime >= 0 /\ r.DateTime < et
        NonNeg(r) == r.CBT >= 0
        df == drop_duplicates_last(SelectSeq(SelectSeq(parsed, Good), InStudy))
        timed == [i \in 1..Len(df) |->
                     [time |-> round_minute(df[i].DateTime), CBT |-> df[i].CBT,
                      qualityT |-> df[i].qualityT, SkinT |-> df[i].SkinT]]
    IN SelectSeq(timed, NonNeg)

\* the rows a core file may hold
CoreRowTypes(fmt) ==
    {[dt |-> t, cbt |-> v[1], quality |-> v[2], skin |-> v[3]] :
        t \in {u \in 0..(CoreMinutes * CoreMinuteTicks - 1) : fmt = 1 \/ u % CoreMinuteTicks = 0},
        v \in {<<37, 3, 30>>, <<36, 3, 30>>, <<37, 3, 31>>, <<37, 2, 30>>, <<-1, 4, 30>>}}

CoreInit ==
    /\ core_pc = "start"
    /\ core_fmt \in {1, 2}
    /\ core_rows \in UNION {[1..n -> CoreRowTypes(core_fmt)] : n \in 1..MaxCoreRows}
    /\ core_end \in {CoreMinuteTicks, CoreMinutes * CoreMinuteTicks}
    /\ core_df = <<>>

CoreIdle ==
    /\ core_pc = "idle"
    /\ core_rows = <<>>
    /\ core_fmt = 0
    /\ core_end = 0
    /\ core_df = <<>>

\* 03_Core_temperature.py main(): df_core, start_time, end_time = core_csv(...)
CoreCsv ==
    /\ core_pc = "start"
    /\ core_df' = core_csv(core_rows, core_fmt, core_end)
    /\ core_pc' = "done"
    /\ UNCHANGED <<core_rows, core_fmt, core_end>>
    /\ UNCHANGED <<nw_vars, sg_vars, acc_vars, ch_vars, fg_vars, acro_vars, np_vars, batch_vars, cfg_vars>>

(***************************************************************************)
(* The acrophase columns of fit_cosinor (01_Cosinor_metrics.py).  An angle *)
(* is an integer number of units, AngleUnits of them to the full turn, so  *)
(* that pi is AngleUnits / 2; a clock time is a number of hours given as a *)
(* numerator over AngleUnits.  The arithmetic is exact.                    *)
(***************************************************************************)
QuarterUnits == 16
AngleUnits == 4 * QuarterUnits
two_pi == AngleUnits

\* the test with <= in place of <
still_negative_closed(value) == value <= 0

\* while value < 0
still_negative(value) == value < 0

RECURSIVE acro_neg_to_pos(_)
acro_neg_to_pos(value) ==
    IF still_negative(value) THEN acro_neg_to_pos(value + two_pi) ELSE value

\* time = 24 - 24 * acrophase / (2 * np.pi), as a numerator over AngleUnits
acro_to_time(a) == 24 * AngleUnits - 24 * a

\* int(x) of the fraction n / d: the fractional part is cut, towards zero
int_trunc(n, d) == IF n >= 0 THEN n \div d ELSE -((-n) \div d)

Digit(d) == <<"0", "1", "2", "3", "4", "5", "6", "7", "8", "9">>[d + 1]

RECURSIVE Digits(_)
Digits(n) == IF n < 10 THEN <<Digit(n)>> ELSE Digits(n \div 10) \o <<Digit(n % 10)>>

\* f'{n:02d}': the sign and the digits, zero-filled to two characters
format_02d(n) ==
    LET body == IF n < 0 THEN <<"-">> \o Digits(-n) ELSE Digits(n)
    IN IF Len(body) >= 2 THEN body
       ELSE IF n < 0 THEN <<"-">> \o Digits(-n) ELSE <<"0">> \o body

hours_of(a) == int_trunc(acro_to_time(a), AngleUnits)
\* time % 1 has the sign of the divisor: it is in [0, 1)
minutes_of(a) == int_trunc((acro_to_time(a) % AngleUnits) * 60, AngleUnits)

acro_to_hour(a) == format_02d(hours_of(a)) \o <<":">> \o format_02d(minutes_of(a))

AcroInit ==
    /\ acro_pc = "fitted"
    /\ fit_acrophase \in (1 - 2 * AngleUnits)..(2 * AngleUnits - 1)
    /\ acrophase = fit_acrophase
    /\ acro_time = 0
    /\ acro_hour = <<>>

AcroIdle ==
    /\ acro_pc = "idle"
    /\ fit_acrophase = 0
    /\ acrophase = 0
    /\ acro_time = 0
    /\ acro_hour = <<>>

\* df_best_fits['acrophase'] = df_best_fits['acrophase'].apply(acro_neg_to_pos)
AcroNegToPos ==
    /\ acro_pc = "fitted"
    /\ acrophase' = acro_neg_to_pos(acrophase)
    /\ acro_pc' = "positive"
    /\ UNCHANGED <<fit_acrophase, acro_time, acro_hour>>
    /\ UNCHANGED <<nw_vars, sg_vars, acc_vars, ch_vars, fg_vars, core_vars, np_vars, batch_vars, cfg_vars>>

\* df_best_fits['time'] = df_best_fits['acrophase'].apply(acro_to_time)
AcroToTime ==
    /\ acro_pc = "positive"
    /\ acro_time' = acro_to_time(acrophase)
    /\ acro_pc' = "timed"
    /\ UNCHANGED <<fit_acrophase, acrophase, acro_hour>>
    /\ UNCHANGED <<nw_vars, sg_vars, acc_vars, ch_vars, fg_vars, core_vars, np_vars, batch_vars, cfg_vars>>

\* df_best_fits['hour'] = df_best_fits['acrophase'].apply(acro_to_hour)
AcroToHour ==
    /\ acro_pc = "timed"
    /\ acro_hour' = acro_to_hour(acrophase)
    /\ acro_pc' = "done"
    /\ UNCHANGED <<fit_acrophase, acrophase, acro_time>>
    /\ UNCHANGED <<nw_vars, sg_vars, acc_vars, ch_vars, fg_vars, core_vars, np_vars, batch_vars, cfg_vars>>

AcroNext == AcroNegToPos \/ AcroToTime \/ AcroToHour

(***************************************************************************)
(* non_parametrics (02_CR_non_parametric.py).  The series has one value    *)
(* per minute over whole days of NpHours hours of NpMinutes minutes; a     *)
(* fraction is a pair <<numerator, denominator>>, and a zero denominator   *)
(* stands for the NaN pandas gives for 0 / 0.                              *)
(***************************************************************************)
NpHours == 2
NpMinutes == 2
MaxNpDays == 2
NpSlots == NpHours * NpMinutes
NpLevels == {0, 1}

RECURSIVE SeqSum(_)
SeqSum(sq) == IF sq = <<>> THEN 0 ELSE Head(sq) + SeqSum(Tail(sq))

SeqSumSq(sq) == SeqSum([i \in 1..Len(sq) |-> sq[i] * sq[i]])

\* Series.var(), ddof = 1, of the values sq[i] / scale:
\* (n * sum(x^2) - sum(x)^2) / (n * (n - 1))
var_ddof1(sq, scale) ==
    <<Len(sq) * SeqSumSq(sq) - SeqSum(sq) * SeqSum(sq),
      Len(sq) * (Len(sq) - 1) * scale * scale>>

frac_div(a, b) == <<a[1] * b[2], a[2] * b[1]>>

\* data.groupby([data.index.hour, data.index.minute]): the sum of every
\* minute of the day over the days; the group mean is this sum / days
minute_sums(ser, days) ==
    [j \in 1..NpSlots |-> SeqSum([d \in 1..days |-> ser[(d - 1) * NpSlots + j]])]

\* data.groupby(data.index.hour): the sum of every hour of the day over the
\* days; the group mean is this sum / (days * NpMinutes)
hour_sums(ser, days) ==
    [h \in 1..NpHours |->
        SeqSum([i \in 1..(days * NpMinutes) |->
                   ser[((i - 1) \div NpMinutes) * NpSlots + (h - 1) * NpMinutes
                        + ((i - 1) % NpMinutes) + 1]])]

\* data.diff(1).pow(2).mean(): the first difference is NaN and is skipped
diff_sq_mean(ser) ==
    <<SeqSum([i \in 1..(Len(ser) - 1) |-> (ser[i + 1] - ser[i]) * (ser[i + 1] - ser[i])]),
      Len(ser) - 1>>

\* hourly_activity.nlargest(k).mean()
nlargest_mean(sums, k, scale) ==
    LET srt == sort_values(sums)
        kk == IF k < Len(sums) THEN k ELSE Len(sums)
    IN <<SeqSum(SubSeq(srt, Len(srt) - kk + 1, Len(srt))), kk * scale>>

\* hourly_activity.nsmallest(k).mean()
nsmallest_mean(sums, k, scale) ==
    LET srt == sort_values(sums)
        kk == IF k < Len(sums) THEN k ELSE Len(sums)
    IN <<SeqSum(SubSeq(srt, 1, kk)), kk * scale>>

non_parametrics(ser, days) ==
    LET d_fraction == var_ddof1(minute_sums(ser, days), days)
        d_daily == var_ddof1(ser, 1)
        d_across == diff_sq_mean(ser)
        M10 == nlargest_mean(hour_sums(ser, days), 10, days * NpMinutes)
        L5 == nsmallest_mean(hour_sums(ser, days), 5, days * NpMinutes)
    IN [IS |-> frac_div(d_fraction, d_daily),
        IV |-> frac_div(d_across, d_daily),
        M10 |-> M10,
        L5 |-> L5,
        RA |-> <<M10[1] * L5[2] - L5[1] * M10[2], M10[1] * L5[2] + L5[1] * M10[2]>>]

\* a series of whole days: one day's pattern repeated, as it is or with one
\* sample of one day changed
NpSeries(days) ==
    LET Repeat(pat) == [i \in 1..(days * NpSlots) |-> pat[((i - 1) % NpSlots) + 1]]
    IN UNION {{Repeat(pat)} \cup
              {[Repeat(pat) EXCEPT ![i] = v] : i \in 1..(days * NpSlots), v \in NpLevels} :
              pat \in [1..NpSlots -> NpLevels]}

NpInit ==
    /\ np_pc = "start"
    /\ np_days \in 1..MaxNpDays
    /\ np_data \in NpSeries(np_days)
    /\ np_result = <<>>

NpIdle ==
    /\ np_pc = "idle"
    /\ np_days = 0
    /\ np_data = <<>>
    /\ np_result = <<>>

\* main(): non_parametric_each = non_parametrics(df_each, which_measure)
NonParametrics ==
    /\ np_pc = "start"
    /\ np_result' = non_parametrics(np_data, np_days)
    /\ np_pc' = "done"
    /\ UNCHANGED <<np_days, np_data>>
    /\ UNCHANGED <<nw_vars, sg_vars, acc_vars, ch_vars, fg_vars, core_vars, acro_vars, batch_vars, cfg_vars>>

(***************************************************************************)
(* The batch loop over the participants: main() of 02_AC_comparison.py and *)
(* ActivityCounts.process.  A participant is given by the condition of the *)
(* data on disk; compare_rows are the rows of the comparison file after    *)
(* its header.                                                             *)
(***************************************************************************)
MaxPatients == 3

\* what main() finds on disk for one participant
PatientConditions == {"ok", "no_time_file", "no_acti_file", "no_watch_folder", "watch_unreadable"}

\* calculate_AC: the exception of read_watch_acc_folder (os.listdir of an
\* absent folder, or df_samsung['time'] of the empty frame left when every
\* file was rejected) is caught for every timeslot, and counts_watch stays
\* the empty DataFrame
watch_counts_empty(cond) == cond \in {"no_watch_folder", "watch_unreadable"}

\* the step of main()'s loop body that raises, "none" if none does:
\* pd.read_csv of the wear time table, acc_csv in get_ActiAC, and
\* self.WatchAC[self.str_time] in merge_ACs on the empty DataFrame
raising_step(cond) ==
    IF cond = "no_time_file" THEN "read_csv"
    ELSE IF cond = "no_acti_file" THEN "get_ActiAC"
    ELSE IF watch_counts_empty(cond) THEN "merge_ACs"
    ELSE "none"

BatchInit ==
    /\ batch_pc = "start"
    /\ patient_list \in UNION {[1..n -> PatientConditions] : n \in 1..MaxPatients}
    /\ patient_i = 1
    /\ compare_rows = <<>>
    /\ miss_file = "absent"

BatchIdle ==
    /\ batch_pc = "idle"
    /\ patient_list = <<>>
    /\ patient_i = 0
    /\ compare_rows = <<>>
    /\ miss_file = "absent"

\* with open(compare_file_path, mode='w') as csv_file: writerow(header_row)
OpenCompareFile ==
    /\ batch_pc = "start"
    /\ batch_pc' = "loop"
    /\ UNCHANGED <<patient_list, patient_i, compare_rows, miss_file>>
    /\ UNCHANGED <<nw_vars, sg_vars, acc_vars, ch_vars, fg_vars, core_vars, acro_vars, np_vars, cfg_vars>>

\* one pass of the loop body that runs to csv_writer.writerow(row_data)
ProcessPatient ==
    /\ batch_pc = "loop"
    /\ patient_i <= Len(patient_list)
    /\ raising_step(patient_list[patient_i]) = "none"
    /\ compare_rows' = Append(compare_rows, patient_i)
    /\ patient_i' = patient_i + 1
    /\ UNCHANGED <<batch_pc, patient_list, miss_file>>
    /\ UNCHANGED <<nw_vars, sg_vars, acc_vars, ch_vars, fg_vars, core_vars, acro_vars, np_vars, cfg_vars>>

\* one pass of the loop body in which a step raises: nothing in main()
\* catches the exception, it leaves the loop and the with block
PatientRaises ==
    /\ batch_pc = "loop"
    /\ patient_i <= Len(patient_list)
    /\ raising_step(patient_list[patient_i]) # "none"
    /\ batch_pc' = "aborted"
    /\ UNCHANGED <<patient_list, patient_i, compare_rows, miss_file>>
    /\ UNCHANGED <<nw_vars, sg_vars, acc_vars, ch_vars, fg_vars, core_vars, acro_vars, np_vars, cfg_vars>>

\* after the loop: miss_df.to_csv(miss_file_path, index=False)
WriteMissFile ==
    /\ batch_pc = "loop"
    /\ patient_i > Len(patient_list)
    /\ miss_file' = "written"
    /\ batch_pc' = "finished"
    /\ UNCHANGED <<patient_list, patient_i, compare_rows>>
    /\ UNCHANGED <<nw_vars, sg_vars, acc_vars, ch_vars, fg_vars, core_vars, acro_vars, np_vars, cfg_vars>>

BatchNext == OpenCompareFile \/ ProcessPatient \/ PatientRaises \/ WriteMissFile

(***************************************************************************)
(* The configuration of 01_Watch_charging.py: load_config, the module      *)
(* level reads of the keys, the creation of the output folder, and main(). *)
(* config_file tells whether config.json exists and which keys it holds;   *)
(* a value is "set" or the empty string.                                   *)
(***************************************************************************)
InputKeys == {"input_root", "raw_data_folder", "battery_folder_path", "study_period_file"}
OutputKeys == {"output_root", "wear_time_folder", "battery_times_file"}
ConfigKeys == InputKeys \cup OutputKeys
NoFile == [exists |-> FALSE, keys |-> {}]

\* config.get(key, "")
config_get(cfg, key) == IF key \in cfg THEN "set" ELSE ""

CfgInit ==
    /\ cfg_pc = "start"
    /\ config_file \in {[exists |-> TRUE, keys |-> ks] : ks \in SUBSET ConfigKeys} \cup {NoFile}
    /\ config = {}
    /\ cfg_paths = <<>>
    /\ output_folder_made = FALSE
    /\ main_output = "absent"

CfgIdle ==
    /\ cfg_pc = "idle"
    /\ config_file = NoFile
    /\ config = {}
    /\ cfg_paths = <<>>
    /\ output_folder_made = FALSE
    /\ main_output = "absent"

\* config = load_config(current_dir): open(config_path) raises when there
\* is no file
LoadConfig ==
    /\ cfg_pc = "start"
    /\ IF ~config_file.exists
       THEN cfg_pc' = "aborted" /\ config' = config
       ELSE cfg_pc' = "loaded" /\ config' = config_file.keys
    /\ UNCHANGED <<config_file, cfg_paths, output_folder_made, main_output>>
    /\ UNCHANGED <<nw_vars, sg_vars, acc_vars, ch_vars, fg_vars, core_vars, acro_vars, np_vars, batch_vars>>

\* the two generator expressions (config.get(key, "") for key in [...])
ReadConfigKeys ==
    /\ cfg_pc = "loaded"
    /\ cfg_paths' = [key \in ConfigKeys |-> config_get(config, key)]
    /\ cfg_pc' = "keys"
    /\ UNCHANGED <<config_file, config, output_folder_made, main_output>>
    /\ UNCHANGED <<nw_vars, sg_vars, acc_vars, ch_vars, fg_vars, core_vars, acro_vars, np_vars, batch_vars>>

\* folderErrorHandling(output_folder): output_folder ends in patient_ID, so
\* it is never the empty path; the folder is made if it is not there
MakeOutputFolder ==
    /\ cfg_pc = "keys"
    /\ output_folder_made' = TRUE
    /\ cfg_pc' = "configured"
    /\ UNCHANGED <<config_file, config, cfg_paths, main_output>>
    /\ UNCHANGED <<nw_vars, sg_vars, acc_vars, ch_vars, fg_vars, core_vars, acro_vars, np_vars, batch_vars>>

\* main(): read_times and charging_timev1 read below the input paths, which
\* are there when every input key is set, cannot be there without the key
\* of the study period file, and otherwise may or may not be; the table is
\* written to os.path.join(output_folder, battery_times_file), which is the
\* folder itself when that key is absent
RunMain ==
    /\ cfg_pc = "configured"
    /\ \E found \in BOOLEAN :
          LET inputs_read ==
                  IF \A key \in InputKeys : cfg_paths[key] = "set" THEN TRUE
                  ELSE IF cfg_paths["study_period_file"] = "" THEN FALSE
                  ELSE found
          IN IF ~inputs_read THEN cfg_pc' = "raised" /\ main_output' = "absent"
             ELSE IF cfg_paths["battery_times_file"] = ""
                  THEN cfg_pc' = "raised" /\ main_output' = "absent"
                  ELSE cfg_pc' = "done" /\ main_output' = "written"
    /\ UNCHANGED <<config_file, config, cfg_paths, output_folder_made>>
    /\ UNCHANGED <<nw_vars, sg_vars, acc_vars, ch_vars, fg_vars, core_vars, acro_vars, np_vars, batch_vars>>

CfgNext == LoadConfig \/ ReadConfigKeys \/ MakeOutputFolder \/ RunMain

(***************************************************************************)
(* Claims about the non-wear filters.                                      *)
(***************************************************************************)
InRows(r, rows) == \E j \in 1..Len(rows) : rows[j] = r

\* the rows of d whose time lies in [ws, ws + WindowLen)
RowsIn(d, ws) ==
    LET InWin(r) == ws <= r.time /\ r.time < ws + WindowLen
    IN SelectSeq(d, InWin)

BothZeroButLast(w) ==
    /\ Len(w) >= 2
    /\ \A i \in 1..(Len(w) - 1) : w[i].watch = 0 /\ w[i].acti = 0

\* the window of the partition of the whole series that holds time t
PartitionStart(d, t) ==
    LET lo == SetMin({d[i].time : i \in 1..Len(d)})
    IN lo + ((t - lo) \div WindowLen) * WindowLen

StartInSleep(sl, ws) == \E k \in 1..Len(sl) : sl[k].t0 < ws /\ ws < sl[k].t1

SleepOverlaps(sl, ws) ==
    \E k \in 1..Len(sl) : sl[k].t0 < ws + WindowLen /\ ws < sl[k].t1

\* C1: the 15-minute windows partition the whole series, and a sample is
\* absent from the output only if its window is outside sleep, has at least
\* 2 samples and is both-zero for all but its last sample.
C1_OnlyNonWearWindowsRemoved ==
    nw_pc = "done" =>
        \A i \in 1..Len(data) :
            ~InRows(data[i], rm_data) =>
                LET ws == PartitionStart(data, data[i].time)
                IN /\ ~StartInSleep(sleep, ws)
                   /\ BothZeroButLast(RowsIn(data, ws))

\* C2 as stated: a scanned window with at least 2 samples that is both-zero
\* for all but its last sample is removed in full when no sleep interval
\* overlaps it, and kept in full when some sleep interval overlaps it.
C2_OverlapRule ==
    nw_pc = "done" =>
        \A ws \in window_starts(data) :
            LET w == RowsIn(data, ws)
            IN BothZeroButLast(w) =>
                  IF SleepOverlaps(sleep, ws)
                  THEN \A i \in 1..Len(w) : InRows(w[i], rm_data)
                  ELSE \A i \in 1..Len(w) : ~InRows(w[i], rm_data)

\* C2 amended: a scanned window with at least 2 samples that is both-zero
\* for all but its last sample is removed in full (its last sample too) when
\* no sleep interval strictly contains the window's start, and kept in full
\* when in_bed_time < window start < out_bed_time for some sleep interval.
C2_WindowStartRule ==
    nw_pc = "done" =>
        \A ws \in window_starts(data) :
            LET w == RowsIn(data, ws)
            IN BothZeroButLast(w) =>
                  IF StartInSleep(sleep, ws)
                  THEN \A i \in 1..Len(w) : InRows(w[i], rm_data)
                  ELSE \A i \in 1..Len(w) : ~InRows(w[i], rm_data)

\* C2 witness: a both-zero window with a non-zero last sample is dropped
\* although a sleep interval overlaps it (the window start is not in sleep).
C2_Witness ==
    /\ nw_pc = "done"
    /\ \E ws \in window_starts(data) :
          LET w == RowsIn(data, ws)
          IN /\ BothZeroButLast(w)
             /\ w[Len(w)].watch # 0
             /\ SleepOverlaps(sleep, ws)
             /\ ~StartInSleep(sleep, ws)
             /\ \A i \in 1..Len(w) : ~InRows(w[i], rm_data)

SpecKeep(r) == Abs(r.diff) < 2 * r.average \/ Abs(r.diff) < 500

RawKept == LET NotNa(r) == r.X # NaN IN SelectSeq(df_samsung, NotNa)

GridStart == floor_minute(SetMin({RawKept[i].time : i \in 1..Len(RawKept)}))

GridEnd == ceil_minute(SetMax({RawKept[i].time : i \in 1..Len(RawKept)}))

\* C4: the filled series of get_counts_csv has exactly (end - start)/period
\* samples, with start the first timestamp floored to the minute and end the
\* last timestamp ceiled to the minute, and consecutive samples are exactly
\* one period apart.
C4_FilledGridIsRegular ==
    filled # <<>> =>
        /\ Len(filled) * Period = GridEnd - GridStart
        /\ filled[1].time = GridStart
        /\ \A k \in 1..(Len(filled) - 1) : filled[k + 1].time - filled[k].time = Period

\* the rows recorded in the folder with a numeric timestamp
Recorded(h) == LET IsOk(r) == r.tsk = "ok" IN SelectSeq(folder[h], IsOk)

\* no recorded sample lies within a minute of time g
InRecordingGap(g) ==
    \A h \in 0..(NumHours - 1) :
        \A i \in 1..Len(Recorded(h)) : Abs(Recorded(h)[i].ts - g) >= Minute

\* C5: every grid point inside a recording gap carries X = Y = Z = 0 in the
\* series handed to the activity-count transform.
C5_GapsAreZeroFilled ==
    \A k \in 1..Len(filled) : InRecordingGap(filled[k].time) => filled[k].X = 0

ValidCount(rows) == Cardinality({i \in 1..Len(rows) : rows[i].tsk = "ok"})

PresentCount(rows) == Cardinality({i \in 1..Len(rows) : rows[i].tsk # "empty"})

UsableCount(rows, h) ==
    Cardinality({i \in 1..Len(rows) :
                    /\ rows[i].tsk = "ok"
                    /\ h * Hour <= rows[i].ts
                    /\ rows[i].ts <= h * Hour + Hour})

HrGoodCount(rows, h) ==
    Cardinality({i \in 1..Len(rows) :
                    /\ rows[i].tsk = "ok"
                    /\ h * Hour <= rows[i].ts
                    /\ rows[i].ts <= h * Hour + Hour
                    /\ rows[i].status = 1
                    /\ rows[i].x # NaN})

RECURSIVE SumTo(_, _)
SumTo(f, n) == IF n < 0 THEN 0 ELSE f[n] + SumTo(f, n - 1)

\* C6 as stated: an hourly file with fewer than 50 usable samples (valid
\* timestamp, inside the file's own hour) is rejected by acc_watch_csv and
\* by hr_csv.
C6_UsableCountRule ==
    \A h \in 0..(NumHours - 1) :
        (acc_pc # "idle" /\ folder[h] # Absent /\ UsableCount(folder[h], h) < MinSamples) =>
            /\ acc_read[h] # "data"
            /\ hr_read[h] # "data"

\* C6 amended: the count that is compared with 50 is taken before the rows
\* outside the file's hour are discarded.  acc_watch_csv returns no data
\* exactly when fewer than 50 rows have a valid timestamp, hr_csv exactly
\* when fewer than 50 rows have a non-empty timestamp field; a rejected file
\* contributes no sample and the run goes on.
C6_RowCountRule ==
    acc_pc # "idle" =>
        /\ \A h \in 0..(NumHours - 1) :
              /\ acc_read[h] \in {"none", "error", "data"} =>
                    /\ acc_read[h] = "none" <=> ValidCount(folder[h]) < MinSamples
                    /\ acc_read[h] = "none" =>
                          \A i \in 1..Len(df_samsung) :
                              ~(h * Hour <= df_samsung[i].time /\ df_samsung[i].time < h * Hour + Hour)
              /\ hr_read[h] \in {"none", "data"} =>
                    hr_read[h] = "none" <=> PresentCount(folder[h]) < MinSamples
        /\ hr_pc = "done" =>
              Len(df_hr) = SumTo([h \in 0..(NumHours - 1) |->
                                     IF hr_read[h] = "data" THEN HrGoodCount(folder[h], h) ELSE 0],
                                 NumHours - 1)
        /\ acc_pc = "crashed" => df_samsung # <<>>

\* C6 witness: one file with fewer than 50 timestamped rows was rejected by
\* both readers, and another file with 50 timestamped rows of which fewer
\* than 50 lie in its hour was read as data.
C6_Witness ==
    /\ hr_pc = "done"
    /\ \E h \in 0..(NumHours - 1) :
          /\ folder[h] # Absent
          /\ ValidCount(folder[h]) < MinSamples
          /\ acc_read[h] = "none"
          /\ hr_read[h] = "none"
    /\ \E h \in 0..(NumHours - 1) :
          /\ folder[h] # Absent
          /\ UsableCount(folder[h], h) < MinSamples
          /\ acc_read[h] = "data"
          /\ hr_read[h] = "data"

(***************************************************************************)
(* Claims about the charging detector.                                     *)
(***************************************************************************)
MinLen(a, b) == IF Len(a) < Len(b) THEN Len(a) ELSE Len(b)

\* C7: the charging intervals (charge_starttime[k], charge_endtime[k]) that
\* find_charging_time returns after the pairing correction have end > start
\* and are pairwise non-overlapping.
C7_ChargingIntervalsWellFormed ==
    ch_pc \in {"v1", "v2", "done"} =>
        \A k \in 1..MinLen(charge_starttime, charge_endtime) :
            /\ charge_endtime[k] > charge_starttime[k]
            /\ \A j \in 1..(k - 1) :
                  \/ charge_endtime[j] <= charge_starttime[k]
                  \/ charge_endtime[k] <= charge_starttime[j]

InCharging(t) ==
    \E k \in 1..MinLen(charge_starttime, charge_endtime) :
        charge_starttime[k] <= t /\ t < charge_endtime[k]

InWear(t) ==
    \E k \in 1..MinLen(start_times, end_times) : start_times[k] <= t /\ t < end_times[k]

\* C8: every valid-wear interval of charging_timev1 has Start < End and lies
\* within the study period, and the union of the valid-wear intervals is the
\* study period minus the union of the buffered charging intervals.
C8_WearIsComplementInStudy ==
    ch_pc \in {"v1", "v2", "done"} =>
        /\ \A k \in 1..MinLen(start_times, end_times) :
              /\ start_times[k] < end_times[k]
              /\ study_start <= start_times[k]
              /\ end_times[k] <= study_end
        /\ \A t \in study_start..(study_end - 1) : InWear(t) <=> ~InCharging(t)

\* C9 as stated: the persisted valid-wear table consists of the Start/End
\* lists of the state-transition pass (charging_timev1).
C9_StateTransitionPersisted ==
    ch_pc = "done" =>
        /\ Len(miss_battery) = Len(start_times)
        /\ Len(miss_battery) = Len(end_times)
        /\ \A k \in 1..MinLen(start_times, end_times) :
              k <= Len(miss_battery) =>
                  /\ miss_battery[k].Start = start_times[k]
                  /\ miss_battery[k].End = end_times[k]

\* C9 amended: the persisted valid-wear table consists of the Start/End
\* lists of the level-trend pass (charging_timev2); the lists of the
\* state-transition pass are not written, and nothing is written when the
\* script stops on lists of unequal length.
C9_LevelTrendPersisted ==
    /\ ch_pc = "done" =>
          /\ Len(miss_battery) = Len(start_times2)
          /\ Len(miss_battery) = Len(end_times2)
          /\ \A k \in 1..Len(miss_battery) :
                /\ miss_battery[k].Start = start_times2[k]
                /\ miss_battery[k].End = end_times2[k]
    /\ ch_pc # "done" => miss_battery = <<>>

\* C9 witness: a table was written after both passes found a charge and
\* produced different lists.
C9_Witness ==
    /\ ch_pc = "done"
    /\ Len(miss_battery) >= 2
    /\ Len(start_times) >= 2
    /\ Len(end_times) >= 2
    /\ start_times # start_times2
    /\ end_times # end_times2

(***************************************************************************)
(* Claims about the file-gap detector.                                     *)
(***************************************************************************)
\* the hours of the missing files
MissingHours == {strptime_dH(missing_files[k]) : k \in 1..Len(missing_files)}

InNoFile(t) ==
    \E k \in 1..MinLen(nofile_starts, nofile_ends) :
        nofile_starts[k] <= t /\ t < nofile_ends[k]

\* C10: the intervals of files_to_time are in increasing order and pairwise
\* disjoint, there is exactly one interval per maximal run of consecutive
\* missing hours, and their union is the union of [h, h + 1h) over the
\* missing hours h.
C10_OneIntervalPerRun ==
    fg_pc = "done" =>
        /\ Len(nofile_starts) = Len(nofile_ends)
        /\ \A k \in 1..Len(nofile_starts) : nofile_starts[k] < nofile_ends[k]
        /\ \A k \in 1..(Len(nofile_starts) - 1) : nofile_ends[k] < nofile_starts[k + 1]
        /\ Len(nofile_starts) =
              Cardinality({h \in MissingHours : (h - HourTicks) \notin MissingHours})
        /\ \A k \in 1..Len(nofile_starts) :
              /\ nofile_starts[k] \in MissingHours
              /\ (nofile_starts[k] - HourTicks) \notin MissingHours
        /\ \A t \in (FirstHour * HourTicks - HourTicks)..((FirstHour + NumFileHours + 1) * HourTicks) :
              InNoFile(t) <=> \E h \in MissingHours : h <= t /\ t < h + HourTicks

\* C10 witness: the missing hours form an isolated hour and a run of several
\* hours that goes over midnight, and both were turned into intervals.
C10_Witness ==
    /\ fg_pc = "done"
    /\ Len(nofile_starts) >= 2
    /\ \E k \in 1..Len(nofile_starts) : nofile_ends[k] - nofile_starts[k] = HourTicks
    /\ \E k \in 1..Len(nofile_starts) :
          /\ nofile_ends[k] - nofile_starts[k] >= 2 * HourTicks
          /\ nofile_starts[k] < DayHours * HourTicks
          /\ nofile_ends[k] > DayHours * HourTicks

InBtWear(t) ==
    \E k \in 1..Len(bt_start_times) : bt_start_times[k] <= t /\ t < bt_end_times[k]

InCombined(t) ==
    \E k \in 1..Len(combined_times) : combined_times[k].Start <= t /\ t < combined_times[k].End

\* the battery table is sorted, its rows are disjoint and have Start < End
BtWellFormed ==
    /\ Len(bt_start_times) = Len(bt_end_times)
    /\ \A k \in 1..Len(bt_start_times) : bt_start_times[k] < bt_end_times[k]
    /\ \A k \in 1..(Len(bt_start_times) - 1) : bt_end_times[k] <= bt_start_times[k + 1]

\* C11: given a sorted, disjoint battery table with Start < End and the
\* no-file intervals of files_to_time, every row of combine_battery_nofile has
\* Start < End, the rows are pairwise disjoint, all lie within [first wear
\* Start, last wear End], and their union is the union of the wear intervals
\* minus the union of the no-file intervals.
C11_CombinedIsWearMinusNoFile ==
    (fg_pc = "combined" /\ BtWellFormed) =>
        /\ \A k \in 1..Len(combined_times) :
              /\ combined_times[k].Start < combined_times[k].End
              /\ bt_start_times[1] <= combined_times[k].Start
              /\ combined_times[k].End <= bt_end_times[Len(bt_end_times)]
              /\ \A j \in 1..(k - 1) :
                    \/ combined_times[j].End <= combined_times[k].Start
                    \/ combined_times[k].End <= combined_times[j].Start
        /\ \A t \in (FirstHour * HourTicks - HourTicks)..((FirstHour + NumFileHours + 1) * HourTicks) :
              InCombined(t) <=> (InBtWear(t) /\ ~InNoFile(t))

\* C11 witness: the battery table has a charging gap, one no-file interval
\* reaches over a wear boundary, a pair of the merged lists was dropped and
\* the written table has several rows.
C11_Witness ==
    /\ fg_pc = "combined"
    /\ BtWellFormed
    /\ Len(bt_start_times) >= 2
    /\ Len(combined_times) >= 3
    /\ Len(combined_times) < Len(bt_start_times) + Len(nofile_starts)
    /\ \E k \in 1..Len(nofile_starts) :
          \E j \in 1..Len(bt_end_times) :
              nofile_starts[k] < bt_end_times[j] /\ bt_end_times[j] < nofile_ends[k]

\* the clock hours that overlap [fm_start_time, fm_end_time)
OverlappingHours ==
    {h \in (FirstHour - 1)..(FirstHour + NumFileHours + 1) :
        h * HourTicks < fm_end_time /\ fm_start_time < (h + 1) * HourTicks}

\* C12: files_miss reports every clock hour that overlaps [study_start,
\* study_end) and has no file (also when the period does not start or end on
\* a full hour), and never a file that is present.
C12_MissingIsSetDifference ==
    fg_pc # "start" =>
        /\ \A k \in 1..Len(missing_files) : missing_files[k] \notin present_files
        /\ \A h \in OverlappingHours :
              strftime_dH(h * HourTicks) \notin present_files =>
                  \E k \in 1..Len(missing_files) : missing_files[k] = strftime_dH(h * HourTicks)

(***************************************************************************)
(* Claims about the core temperature reader.                               *)
(***************************************************************************)
\* the rows of the file that pass the filters of core_csv, in file order,
\* with the timestamp they get
CorePassing ==
    LET Pass(r) ==
            /\ r.quality >= 3
            /\ r.cbt >= 0
            /\ (IF core_fmt = 1 THEN strftime_minute(r.dt) ELSE r.dt) < core_end
    IN SelectSeq(core_rows, Pass)

CoreStamp(r) == round_minute(IF core_fmt = 1 THEN strftime_minute(r.dt) ELSE r.dt)

\* C13: after the reader has processed the stream the timestamps are
\* non-decreasing, no two samples share a timestamp, and the sample kept for
\* a timestamp carries the values of the last input row with that timestamp.
C13_SortedUniqueKeepLast ==
    core_pc = "done" =>
        /\ \A k \in 1..(Len(core_df) - 1) : core_df[k].time <= core_df[k + 1].time
        /\ \A j \in 1..Len(core_df) : \A k \in 1..Len(core_df) :
              j # k => core_df[j].time # core_df[k].time
        /\ \A k \in 1..Len(core_df) :
              \E i \in 1..Len(CorePassing) :
                  /\ CoreStamp(CorePassing[i]) = core_df[k].time
                  /\ \A i2 \in (i + 1)..Len(CorePassing) :
                        CoreStamp(CorePassing[i2]) # core_df[k].time
                  /\ CorePassing[i].cbt = core_df[k].CBT
                  /\ CorePassing[i].skin = core_df[k].SkinT

(***************************************************************************)
(* Claims about the acrophase columns.                                     *)
(***************************************************************************)
AcroApplied == acro_pc \in {"positive", "timed", "done"}

C15_ClockString ==
    (acro_pc = "done" /\ acrophase >= 0 /\ acrophase < two_pi) =>
        /\ 2 * acrophase = two_pi => acro_hour = <<"1", "2", ":", "0", "0">>
        /\ acrophase = 0 => acro_hour = <<"0", "0", ":", "0", "0">>
        /\ \E h \in 0..23 : \E mi \in 0..59 :
              acro_hour = format_02d(h) \o <<":">> \o format_02d(mi)

(***************************************************************************)
(* Claims about non_parametrics.                                           *)
(***************************************************************************)
NpPeriodic == \A i \in 1..Len(np_data) : np_data[i] = np_data[((i - 1) % NpSlots) + 1]
NpConstant == \A i \in 1..Len(np_data) : np_data[i] = np_data[1]

\* C16: for a non-constant series that is identical on every one of D >= 2
\* complete days, the returned IS equals 1.
C16_PeriodicSeriesHasISOne ==
    (np_pc = "done" /\ np_days >= 2 /\ NpPeriodic /\ ~NpConstant) =>
        /\ np_result.IS[2] # 0
        /\ np_result.IS[1] = np_result.IS[2]

(***************************************************************************)
(* Claims about the batch loop.                                            *)
(***************************************************************************)
\* C17: a participant whose data cannot be processed ends only that
\* participant's run: once the batch has stopped, every participant that
\* can be processed has its row and the batch has reached its end.
C17_ParticipantFailureIsolated ==
    batch_pc \in {"finished", "aborted"} =>
        /\ batch_pc = "finished"
        /\ \A k \in 1..Len(patient_list) :
              raising_step(patient_list[k]) = "none" => k \in Range(compare_rows)

(***************************************************************************)
(* Claims about the isolation of failures in calculate_AC.                 *)
(***************************************************************************)
\* the wear interval that the last pass of the loop of calculate_AC handled
LastSlot == slots[slot_i - 1]

FileInRange(h) == LastSlot.s - Hour < h * Hour /\ h * Hour < LastSlot.e

\* C18: after a pass of calculate_AC over a wear interval, every hourly
\* file of the range that can be read has all its samples of the interval
\* in df_samsung, whatever happened to the other files; and when no file of
\* the interval yields data the interval is skipped and the loop goes on.
C18_FailureIsIsolated ==
    (acc_pc \in {"loop", "done", "crashed"} /\ slot_i >= 2) =>
        /\ \A h \in 0..(NumHours - 1) :
              (folder[h] # Absent /\ FileInRange(h)) =>
                  LET res == acc_watch_csv(folder[h], h)
                      InSlot(r) == r.time >= LastSlot.s /\ r.time < LastSlot.e
                  IN res.status = "data" =>
                        /\ acc_read[h] = "data"
                        /\ Range(SelectSeq(res.rows, InSlot)) \subseteq Range(df_samsung)
        /\ (\A h \in 0..(NumHours - 1) : acc_read[h] # "data") =>
              /\ df_samsung = <<>>
              /\ filled = <<>>
              /\ acc_pc # "crashed"

C18_Witness ==
    /\ acc_pc = "loop"
    /\ slot_i = 2
    /\ acc_read[0] = "error"
    /\ acc_read[1] = "data"
    /\ \E i \in 1..Len(df_samsung) : df_samsung[i].time >= Hour

(***************************************************************************)
(* Claims about the configuration.                                         *)
(***************************************************************************)
\* C19: when an expected key is absent from the loaded configuration the
\* script aborts at once: it never gets past the reading of the keys, no
\* output folder or file is made and main() does not run.
C19_MissingKeyFailsFast ==
    (config_file.exists /\ \E key \in ConfigKeys : key \notin config_file.keys) =>
        /\ cfg_pc \in {"start", "loaded", "aborted"}
        /\ ~output_folder_made
        /\ main_output = "absent"

RECURSIVE EpochSum(_, _)
EpochSum(label, i) ==
    IF i = 0 THEN 0
    ELSE (IF filled[i].time >= label /\ filled[i].time < label + Minute THEN filled[i].X ELSE 0)
         + EpochSum(label, i - 1)

NotChargingCodes == {1, 2}
ChargingCodes == {3, 4, 5, 6}

\* the times of the rows of df_battery at the positions of P, in order,
\* moved by shift
FlaggedTimes(P, shift) ==
    LET InP(i) == i \in P
        idx == SelectSeq([i \in 1..Len(df_battery) |-> i], InP)
    IN [k \in 1..Len(idx) |-> df_battery[idx[k]].time + shift]

\* a start is flagged at i when state[i-1] is not charging and state[i] is
StartFlags ==
    {i \in 2..Len(df_battery) :
        df_battery[i - 1].state \in NotChargingCodes /\ df_battery[i].state \in ChargingCodes}

\* an end flagged at i when state[i-1] is charging and state[i] is not
EndFlagsAfter ==
    {i \in 2..Len(df_battery) :
        df_battery[i - 1].state \in ChargingCodes /\ df_battery[i].state \in NotChargingCodes}

\* an end flagged at i when state[i] is charging and state[i+1] is not
EndFlagsLast ==
    {i \in 1..(Len(df_battery) - 1) :
        df_battery[i].state \in ChargingCodes /\ df_battery[i + 1].state \in NotChargingCodes}

\* sq or sq without its last element
IsSelfOrFront(lst, sq) ==
    lst = sq \/ (sq # <<>> /\ lst = SubSeq(sq, 1, Len(sq) - 1))

\* sq or sq without its first element
IsSelfOrTail(lst, sq) == lst = sq \/ (sq # <<>> /\ lst = Tail(sq))

\* C22 as stated: starts are flagged at the first charging sample and
\* emitted 2 minutes earlier; ends are flagged at the first sample that is
\* not charging any more and emitted 2 minutes later.
C22_EndAtFirstNotCharging ==
    ch_pc \in {"v1", "v2", "done"} =>
        /\ IsSelfOrFront(charge_starttime, FlaggedTimes(StartFlags, -2 * TicksPerMinute))
        /\ IsSelfOrTail(charge_endtime, FlaggedTimes(EndFlagsAfter, 2 * TicksPerMinute))

\* C22 amended: a start is flagged at index i exactly when state[i-1] is in
\* {1,2} and state[i] in {3,4,5,6}; an end is flagged at index i exactly when
\* state[i] is in {3,4,5,6} and state[i+1] in {1,2}, that is at the last
\* charging sample; starts are emitted 2 minutes before and ends 2 minutes
\* after the time of the flagged sample.
C22_EndAtLastCharging ==
    ch_pc \in {"v1", "v2", "done"} =>
        /\ IsSelfOrFront(charge_starttime, FlaggedTimes(StartFlags, -2 * TicksPerMinute))
        /\ IsSelfOrTail(charge_endtime, FlaggedTimes(EndFlagsLast, 2 * TicksPerMinute))

C22_Witness ==
    /\ ch_pc = "v1"
    /\ Len(charge_starttime) >= 1
    /\ Len(charge_endtime) >= 1
    /\ charge_starttime[1] < charge_endtime[1]

\* C23: after the reconciliation of find_charging_time the start list and
\* the end list have the same length, for every battery state sequence.
C23_ReconciledListsSameLength ==
    ch_pc # "start" => Len(charge_starttime) = Len(charge_endtime)

(***************************************************************************)
(* Claims about the level-trend pass charging_timev2.                      *)
(***************************************************************************)
\* the window at offset i as the rule is stated: no positive step among the
\* differences of the first half, and a net increase greater than
\* increase_thres over the second half
StatedStartWindow(i) ==
    /\ \A j \in 1..(half_window - 1) : level_diff(df_battery, i, j) <= 0
    /\ diff_sum(df_battery, i, half_window, window_size - 1) > increase_thres

RECURSIVE StatedEndTimes2(_)
StatedEndTimes2(i) ==
    IF i < Len(df_battery) - window_size
    THEN IF StatedStartWindow(i)
         THEN <<df_battery[i + 1].time - buffer_minute * TicksPerMinute>>
              \o StatedEndTimes2(i + window_size)
         ELSE StatedEndTimes2(i + 1)
    ELSE <<>>

\* C24: a window marks a charge start if and only if the level is
\* non-increasing over its first half and rises by more than 5 over its
\* second half; the boundary emitted is the window's first timestamp minus
\* 5 minutes.
C24_StartRuleNonIncreasingThenRise ==
    ch_pc \in {"v2", "done"} => end_times2 = StatedEndTimes2(0) \o <<study_end>>

\* C25: in both scans of charging_timev2 the index moves by the whole window
\* after a match, so two matched windows of one scan never overlap (their
\* boundaries are at least window_size samples apart, at most one match per
\* window_size samples), and the scans end for every battery series (each
\* reaches the statement after its loop, which appends end_time or follows
\* the append of start_time).
C25_MatchedWindowsDisjoint ==
    ch_pc \in {"v2", "done"} =>
          /\ end_times2[Len(end_times2)] = study_end
          /\ start_times2[1] = study_start
          /\ \A k \in 1..(Len(end_times2) - 2) :
                end_times2[k + 1] - end_times2[k] >= window_size
          /\ \A k \in 2..(Len(start_times2) - 1) :
                start_times2[k + 1] - start_times2[k] >= window_size
          /\ (Len(end_times2) - 1) * window_size <= Len(df_battery)
          /\ (Len(start_times2) - 1) * window_size <= Len(df_battery)

C25_Witness ==
    /\ ch_pc = "v2"
    /\ Len(end_times2) >= 3
    /\ Len(start_times2) >= 3

(***************************************************************************)
(* Further claims about the non-wear filter.                               *)
(***************************************************************************)
\* the window start lies in the half-open sleep interval [t0, t1)
StartInHalfOpenSleep(sl, ws) ==
    \E k \in 1..Len(sl) : sl[k].t0 <= ws /\ ws < sl[k].t1

\* C26: every scanned window whose start t satisfies
\* in_bed_time <= t < out_bed_time for some sleep interval is kept in full,
\* whatever the two devices read.
C26_InSleepWindowsKept ==
    nw_pc = "done" =>
        \A ws \in window_starts(data) :
            StartInHalfOpenSleep(sleep, ws) =>
                LET w == RowsIn(data, ws)
                IN \A i \in 1..Len(w) : InRows(w[i], rm_data)

\* one of the two readings is 0 and the other is at least 500
OneSilent(watch, acti) ==
    \/ watch = 0 /\ acti >= AbsThreshold
    \/ acti = 0 /\ watch >= AbsThreshold

InHourScaled(h) ==
    LET Usable(r) == r.tsk = "ok" /\ h * Hour <= r.ts /\ r.ts <= h * Hour + Hour
        inhour == SelectSeq(folder[h], Usable)
    IN [i \in 1..Len(inhour) |-> [ts |-> inhour[i].ts, X |-> to_mg(inhour[i].x)]]

\* C28: for every file that acc_watch_csv read, also one whose rows are not
\* in time order, the value stored at a timestamp of the frame that is
\* regridded is a value the file records with that timestamp.
C28_ValuesStayWithTimestamps ==
    \A h \in DOMAIN acc_read :
        acc_read[h] = "data" =>
            LET fr == indexed_frame(InHourScaled(h))
            IN \A k \in 1..Len(fr) : InRows(fr[k], InHourScaled(h))

(***************************************************************************)
(* A further claim about charging_timev2.                                  *)
(***************************************************************************)
\* C29: for every battery series charging_timev2 returns lists of the same
\* length with start_times2[k] < end_times2[k] for every k, so that the
\* Start/End table of main can be built.
C29_LevelTrendTableWellFormed ==
    ch_pc = "v2" =>
        /\ Len(start_times2) = Len(end_times2)
        /\ \A k \in 1..Len(start_times2) : start_times2[k] < end_times2[k]

(***************************************************************************)
(* A claim about both passes of the non-wear filter.                       *)
(***************************************************************************)
\* the rows of a are rows of b, in the order of b, each once (the rows of b
\* are distinct: one per timestamp)
IsSubsequence(a, b) ==
    LET InA(r) == InRows(r, a) IN a = SelectSeq(b, InA)

\* final_data without the diff and average columns
FinalRows ==
    [i \in 1..Len(final_data) |->
        [time |-> final_data[i].time, watch |-> final_data[i].watch, acti |-> final_data[i].acti]]

\* C30: both filters only delete rows: the output of each is a subsequence
\* of its input, values unchanged and no row twice, and each reports the
\* percentage 100 * (rows in - rows out) / rows in, between 0 and 100.
C30_FiltersOnlyDelete ==
    /\ nw_pc \in {"done", "cleaned", "crashed"} =>
          /\ IsSubsequence(rm_data, data)
          /\ pct_both_non_wear = PctRound(Len(data) - Len(rm_data), Len(data))
          /\ pct_both_non_wear \in 0..10000
    /\ nw_pc = "cleaned" =>
          /\ IsSubsequence(FinalRows, rm_data)
          /\ pct_single_no_wear = PctRound(Len(rm_data) - Len(final_data), Len(rm_data))
          /\ pct_single_no_wear \in 0..10000
    /\ nw_pc # "crashed"

(***************************************************************************)
(* Specifications.                                                         *)
(***************************************************************************)
vars ==
    <<nw_vars, sg_vars, acc_vars, ch_vars, fg_vars,
      core_vars, acro_vars, np_vars, batch_vars, cfg_vars>>

BothInit ==
    /\ NwInit
    /\ SgIdle /\ AccIdle /\ ChIdle /\ FgIdle /\ CoreIdle
    /\ AcroIdle /\ NpIdle /\ BatchIdle /\ CfgIdle

NwNext == RemoveBoth \/ CleanACsSingle

SpecBoth == BothInit /\ [][NwNext]_vars

SingleInit ==
    /\ SgInit
    /\ NwIdle /\ AccIdle /\ ChIdle /\ FgIdle /\ CoreIdle
    /\ AcroIdle /\ NpIdle /\ BatchIdle /\ CfgIdle

SpecSingle == SingleInit /\ [][RemoveSingle]_vars

ReadInit ==
    /\ AccInit
    /\ NwIdle /\ SgIdle /\ ChIdle /\ FgIdle /\ CoreIdle
    /\ AcroIdle /\ NpIdle /\ BatchIdle /\ CfgIdle

AccNext == Timeslot \/ FinishAC \/ ReadHrFolder

SpecAcc == ReadInit /\ [][AccNext]_vars

ChargeInit ==
    /\ ChInit
    /\ NwIdle /\ SgIdle /\ AccIdle /\ FgIdle /\ CoreIdle
    /\ AcroIdle /\ NpIdle /\ BatchIdle /\ CfgIdle

SpecCharge == ChargeInit /\ [][ChNext]_vars

FilesInit ==
    /\ FgInit
    /\ NwIdle /\ SgIdle /\ AccIdle /\ ChIdle /\ CoreIdle
    /\ AcroIdle /\ NpIdle /\ BatchIdle /\ CfgIdle

SpecFiles == FilesInit /\ [][FgNext]_vars

CoreReadInit ==
    /\ CoreInit
    /\ NwIdle /\ SgIdle /\ AccIdle /\ ChIdle /\ FgIdle
    /\ AcroIdle /\ NpIdle /\ BatchIdle /\ CfgIdle

SpecCore == CoreReadInit /\ [][CoreCsv]_vars

CosinorInit ==
    /\ AcroInit
    /\ NwIdle /\ SgIdle /\ AccIdle /\ ChIdle /\ FgIdle
    /\ CoreIdle /\ NpIdle /\ BatchIdle /\ CfgIdle

SpecAcro == CosinorInit /\ [][AcroNext]_vars

RhythmInit ==
    /\ NpInit
    /\ NwIdle /\ SgIdle /\ AccIdle /\ ChIdle /\ FgIdle
    /\ CoreIdle /\ AcroIdle /\ BatchIdle /\ CfgIdle

SpecNp == RhythmInit /\ [][NonParametrics]_vars

ComparisonInit ==
    /\ BatchInit
    /\ NwIdle /\ SgIdle /\ AccIdle /\ ChIdle /\ FgIdle
    /\ CoreIdle /\ AcroIdle /\ NpIdle /\ CfgIdle

SpecBatch == ComparisonInit /\ [][BatchNext]_vars

ConfiguredInit ==
    /\ CfgInit
    /\ NwIdle /\ SgIdle /\ AccIdle /\ ChIdle /\ FgIdle
    /\ CoreIdle /\ AcroIdle /\ NpIdle /\ BatchIdle

SpecConfig == ConfiguredInit /\ [][CfgNext]_vars

=============================================================================
